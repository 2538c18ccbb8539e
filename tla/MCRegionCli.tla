---------------------------- MODULE MCRegionCli ----------------------------
(***************************************************************************)
(* RegionCli on all command lines of up to four arguments, with numbers    *)
(* for a place near each of two regions, counts below and above the number *)
(* of regions, and a region written with capitals and white space; and on  *)
(* all lines of two that hold an argument which is not Unicode.            *)
(***************************************************************************)
EXTENDS FlagWrapper

AwsLoud == [name |-> "aws", upper |-> TRUE, padded |-> TRUE]

MCWord ==
  {plain(t) : t \in {"--list", "--lat", "--lon", "--key", "--region", "--shards", "-h",
                     "1", "2", "8", "eu-central"}} \cup {AwsLoud}

\* One argument that is not Unicode.
MCNotUnicode == {[name |-> "bytes", upper |-> FALSE, padded |-> FALSE]}
MCArg        == MCWord \cup MCNotUnicode

MCKey    == MCArg \cup {plain("aws")}
MCfnv1a  == [k \in MCKey |-> IF k = AwsLoud THEN 7 ELSE IF k = plain("8") THEN 5 ELSE 10]

\* "2" is a place by the second region, "8" by the third; "1" stands for NaN.
MCF64    == {1, 2, 8}
MCf64_of == [t \in {"1", "2", "8"} |-> IF t = "1" THEN 1 ELSE IF t = "2" THEN 2 ELSE 8]
MCu32_of == MCf64_of
MCdistance_km_to ==
  [x \in Region \X MCF64 \X MCF64 |->
     IF x[2] = 1 \/ x[3] = 1 THEN 20015
     ELSE CASE x[1] = "us-central1" -> 4
            [] x[1] = "us-east-1" -> x[2]
            [] x[1] = "eu-central" -> 10 - x[2]]

NoVars == [v \in EnvVar |-> Unset]
Set1(v, a) == [NoVars EXCEPT ![v] = a]

MCEnvironments ==
  {NoVars,
   Set1("REGION", AwsLoud), Set1("REGION", plain("1")),
   Set1("LATITUDE", plain("8")), Set1("LATITUDE", plain("-h")),
   Set1("ROUTING_KEY", plain("8")), Set1("REGION_LIST", plain("1")),
   [NoVars EXCEPT !["LATITUDE"] = plain("8"), !["LONGITUDE"] = plain("2"),
                  !["SHARD_COUNT"] = plain("8"), !["ROUTING_KEY"] = AwsLoud],
   [NoVars EXCEPT !["SHARD_COUNT"] = AwsLoud, !["LONGITUDE"] = AwsLoud]}

MCCommandLines == SeqOf(MCWord, 4) \cup SeqOf(MCArg, 2)

\* Flags for the wrapper: words --flag=value, --list and one it does not know.
assign(flag, value) == [flag |-> flag, value |-> value]
MCassignment ==
  [t \in {"--region=aws", "--region=1", "--lat=8", "--lat=2", "--lon=8", "--key=8", "--key=aws",
          "--shards=8", "--shards=aws"} |->
     CASE t = "--region=aws" -> assign("--region", "aws")
       [] t = "--region=1"   -> assign("--region", "1")
       [] t = "--lat=8"      -> assign("--lat", "8")
       [] t = "--lat=2"      -> assign("--lat", "2")
       [] t = "--lon=8"      -> assign("--lon", "8")
       [] t = "--key=8"      -> assign("--key", "8")
       [] t = "--key=aws"    -> assign("--key", "aws")
       [] t = "--shards=8"   -> assign("--shards", "8")
       [] t = "--shards=aws" -> assign("--shards", "aws")]
WrapperFlag == {plain(t) : t \in DOMAIN MCassignment} \cup {plain("--list"), plain("8")}

\* What may follow the tool's name, a second `--' among it.
ToolArguments ==
  {<<>>, <<plain("--key"), plain("8")>>, <<plain("--lon"), plain("2")>>,
   <<plain("--region"), plain("eu-central")>>, <<plain("--shards")>>, <<Separator>>}

MCWrapperLines ==
  {f \o <<Separator, Tool>> \o a : f \in SeqOf(WrapperFlag, 3), a \in ToolArguments}
    \cup {<<>>, <<plain("--list")>>, <<plain("--list"), Separator>>}

DirectOnly == {}

\* What the disagreements with the documentation need.
FewEnvironments == {NoVars, Set1("REGION", AwsLoud), Set1("REGION", plain("1"))}
CountCommandLines ==
  {<<plain("--region"), AwsLoud, plain("--key"), plain("8"), plain("--shards"), plain(n)>> :
     n \in {"1", "2", "8"}}
=============================================================================
