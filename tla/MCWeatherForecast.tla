------------------------- MODULE MCWeatherForecast -------------------------
(* Instances of WeatherForecast for TLC. *)
EXTENDS WeatherForecast, TLC

States == {"michigan", "minnesota"}
Codes == "mi" :> "michigan"
SomeQualifiers == {"", "mi", "michigan", "ohio"}
EdgeDays == {0, 1, 16, 17}
EdgeHours == {0, 1, 168, 169}

List(s) == [type |-> "list", values |-> s]
Reading(r) == [type |-> "reading", value |-> r]
Object(columns) == [type |-> "object", columns |-> columns]
KeysOf(s) == [type |-> "keys", values |-> s]
Other == [type |-> "other"]

\* The variables of a current block, each present or not.
SomeCurrent ==
    {Null, Other, Object([k \in {} |-> Reading("null")]),
     Object("time" :> Reading("t1") @@ "temperature_2m" :> Reading("71"))}
        \cup {Object("weather_code" :> Reading(c)) : c \in {"0", "7", "null", "text"}}

\* Up to two times, against columns as long, shorter, longer or of no list.
SomeColumns ==
    LET times == {Null, Other, KeysOf(<<"k1">>), List(<<"t1">>), List(<<"t1", "t2">>)}
        codes == {Null, Other, List(<<>>), List(<<"0">>), List(<<"null", "7">>), List(<<"0", "text">>)}
    IN {Null, Other, Object([k \in {} |-> Null])}
           \cup {Object("time" :> t @@ "weather_code" :> c) : t \in times, c \in codes}
           \cup {Object("time" :> t @@ "temperature_2m" :> List(<<"71">>)
                        @@ "temperature_2m_max" :> List(<<"75", "76">>)) : t \in times}
=============================================================================
