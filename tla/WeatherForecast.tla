-------------------------- MODULE WeatherForecast --------------------------
(***************************************************************************)
(* One call of execute_tool, the only local tool of which is               *)
(* weather_forecast: the arguments a model wrote are checked, the location *)
(* is looked up, the forecast is fetched for the place that ranks first,   *)
(* and its columns become the rows the model reads.  Arguments and replies *)
(* come from outside and may have any shape.                               *)
(*                                                                         *)
(* A variable of the API is a name; one entry of each rename table and of  *)
(* the weather codes stands for the table.  Region names are in lower      *)
(* case.  Units, hints and the debug fields are left out.                  *)
(***************************************************************************)
EXTENDS Integers, Sequences

CONSTANTS Regions,          \* names an admin1 field may have
          Abbreviation,     \* _US_STATE_ABBR and _CA_PROVINCE_ABBR
          Qualifiers,       \* what may follow the first comma of a location, "" for nothing
          Days,             \* numbers of days and
          Hours,            \* of hours a model may ask for
          CurrentContents,  \* what the current block of a reply may hold and
          ColumnContents    \* the hourly and daily ones

ASSUME AbbreviationAssumption == Abbreviation \in [DOMAIN Abbreviation -> Regions]

VARIABLES pc,         \* where execute_tool is
          arguments,  \* what is still needed of the arguments
          places,     \* the geocoder's results
          best,       \* which of them the forecast is for; 0 before the ranking
          asked,      \* the place, forecast_days and forecast_hours of the request
          raw,        \* the blocks of the forecast reply
          result

vars == <<pc, arguments, places, best, asked, raw, result>>

----------------------------------------------------------------------------
(* The tables of the tool *)

Blocks == {"current", "hourly", "daily"}

PRESETS ==
    [current |-> {"current"}, basic_forecast |-> Blocks, rain |-> Blocks,
     hourly |-> {"current", "hourly"}, daily |-> {"daily"}, sun |-> {"daily"},
     wind |-> Blocks, full_debug |-> Blocks]

Unset == 0     \* a number nobody gave: None, or no default

DefaultDays(p) ==
    CASE p = "current" -> Unset [] p = "rain" -> 2 [] p \in {"daily", "full_debug"} -> 7
      [] OTHER -> 3
DefaultHours(p) ==
    CASE p = "hourly" -> 48 [] p \in {"basic_forecast", "rain", "wind"} -> 24
      [] OTHER -> Unset

Renamed(block, key) ==
    CASE block # "daily" /\ key = "temperature_2m" -> "temperature_f"
      [] block = "daily" /\ key = "temperature_2m_max" -> "temp_max_f"
      [] OTHER -> key

DescribeWeatherCode(code) ==
    CASE code = "null" -> "null" [] code = "0" -> "clear" [] OTHER -> "weather code"

----------------------------------------------------------------------------
(* Arguments: each is missing, null, of a wrong type or a value *)

Missing == [type |-> "missing"]
Null == [type |-> "null"]
Boolean == [type |-> "boolean"]
Text(s) == [type |-> "string", text |-> s]
Number(n) == [type |-> "integer", number |-> n]
Float(n) == [type |-> "float", number |-> n]        \* a whole number written n.0
Place(q) == [type |-> "string", text |-> "place", qualifier |-> q]

Locations == {Missing, Null, Boolean, Text("blank")} \cup {Place(q) : q \in Qualifiers}
PresetArguments == {Missing, Null, Boolean, Text("bogus")} \cup {Text(p) : p \in DOMAIN PRESETS}
Numbers(N) == {Missing, Null, Boolean, Text("3"), Float(3)} \cup {Number(n) : n \in N}

None(v) == v \in {Missing, Null}

BadNumberHalfOpen(v, maximum) ==                           \* mutant
    ~None(v) /\ (v.type # "integer" \/ v.number \notin 1..maximum - 1)

BadNumber(v, maximum) ==
    ~None(v) /\ (v.type # "integer" \/ ~(1 <= v.number /\ v.number <= maximum))

Invalid(a) ==
    \/ ~None(a.location) /\ (a.location.type # "string" \/ a.location = Text("blank"))
    \/ a.preset # Missing /\ (a.preset.type # "string" \/ a.preset.text \notin DOMAIN PRESETS)
    \/ BadNumber(a.days, 16)
    \/ BadNumber(a.hours, 168)

Preset(a) == IF a.preset = Missing THEN "basic_forecast" ELSE a.preset.text

NoArguments == [location |-> Missing, preset |-> Missing, days |-> Missing, hours |-> Missing]

Goto(step) == pc' = step
Return(r) == pc' = "done" /\ result' = r
Failure(kind) == [ok |-> FALSE, error |-> kind]

Init ==
    /\ pc = "dispatch"
    /\ arguments = NoArguments
    /\ places = <<>>
    /\ best = 0
    /\ asked = [at |-> 0, days |-> Unset, hours |-> Unset]
    /\ raw = [b \in {} |-> Null]
    /\ result = Failure("none")

\* The dispatch of execute_tool, from a name and arguments of any form.
Dispatch ==
    /\ pc = "dispatch"
    /\ \/ \E error \in {"invalid JSON", "not an object", "no name", "unknown tool"} :
             Return(Failure(error)) /\ UNCHANGED arguments
       \/ /\ arguments' \in [location : Locations, preset : PresetArguments,
                             days : Numbers(Days), hours : Numbers(Hours)]
          /\ Goto("validate") /\ UNCHANGED result
    /\ UNCHANGED <<places, best, asked, raw>>

Validate ==
    /\ pc = "validate"
    /\ IF Invalid(arguments) THEN Return(Failure("arguments"))
       ELSE Goto("announce") /\ UNCHANGED result
    /\ UNCHANGED <<arguments, places, best, asked, raw>>

\* noisy_callback reads the database and sends a notice; if it raises,
\* execute_tool turns that into a failed result.
Announce ==
    /\ pc = "announce"
    /\ \/ None(arguments.location) /\ Return(Failure("no location"))
       \/ ~None(arguments.location) /\ Goto("geocode") /\ UNCHANGED result
       \/ ~None(arguments.location) /\ Return(Failure("execution"))
    /\ UNCHANGED <<arguments, places, best, asked, raw>>

\* get_json raises for a service that is down, reports an error or answers
\* with something that is not a JSON object; geocode_location, for results
\* that are no list of objects.  What httpx raises besides its HTTPError is not
\* caught before execute_tool.
NotServed ==
    /\ pc \in {"geocode", "fetch"}
    /\ \E error \in {"service", "execution"} : Return(Failure(error))
    /\ UNCHANGED <<arguments, places, best, asked, raw>>

\* admin1 may be missing or empty, anything else that is false (null), or true
\* and no text (a number).
Admin1Values == Regions \cup {"absent", "null", "other"}

\* A result has its own coordinates, known by its number, numeric or not.
GeocoderResults(n) ==
    {[i \in 1..n |-> [at |-> i, admin1 |-> regions[i], located |-> located[i]]] :
        regions \in [1..n -> Admin1Values], located \in [1..n -> BOOLEAN]}

Geocode ==
    /\ pc = "geocode"
    /\ \/ Return(Failure("not found")) /\ UNCHANGED places
       \/ /\ places' \in GeocoderResults(1) \cup GeocoderResults(2)
          /\ Goto("rank") /\ UNCHANGED result
    /\ UNCHANGED <<arguments, best, asked, raw>>

----------------------------------------------------------------------------
(* Ranking the places *)

ParseAdmin1(q) == IF q \in DOMAIN Abbreviation THEN Abbreviation[q] ELSE q

Matches(place, region) == place.admin1 = region

RankResultsByPopulation(results, region) == results        \* mutant

RankResults(results, region) ==
    IF region = "" THEN results
    ELSE SelectSeq(results, LAMBDA p : Matches(p, region))
             \o SelectSeq(results, LAMBDA p : ~Matches(p, region))

Region == ParseAdmin1(arguments.location.qualifier)

FallbackFailsUnnamed(place, region) ==                     \* mutant
    region # "" /\ place.admin1 \in {"null", "absent"}

\* The test for a fallback calls lower() on an admin1 that is null.
FallbackFails(place, region) == region # "" /\ place.admin1 = "null"

\* The ranking has called it on every admin1 that is true.
RankingFails(results, region) ==
    region # "" /\ \E i \in DOMAIN results : results[i].admin1 = "other"

Rank ==
    /\ pc = "rank"
    /\ \/ /\ RankingFails(places, Region)
          /\ Return(Failure("execution")) /\ UNCHANGED best
       \/ /\ ~RankingFails(places, Region)
          /\ LET first == RankResults(places, Region)[1] IN
             /\ best' = first.at
             /\ \/ ~first.located /\ Return(Failure("service"))
                \/ /\ first.located /\ FallbackFails(first, Region)
                   /\ Return(Failure("execution"))
                \/ /\ first.located /\ ~FallbackFails(first, Region)
                   /\ Goto("build") /\ UNCHANGED result
    /\ places' = <<>>
    /\ UNCHANGED <<arguments, asked, raw>>

\* What the caller gives goes before the preset's default.
Resolved(v, default) == IF None(v) THEN default ELSE v.number

BuildForecastParams ==
    /\ pc = "build"
    /\ asked' = [at |-> best,
                 days |-> Resolved(arguments.days, DefaultDays(Preset(arguments))),
                 hours |-> Resolved(arguments.hours, DefaultHours(Preset(arguments)))]
    /\ arguments' = [NoArguments EXCEPT !.preset = Text(Preset(arguments))]
    /\ Goto("fetch")
    /\ UNCHANGED <<places, best, raw, result>>

Contents(block) == IF block = "current" THEN CurrentContents ELSE ColumnContents

\* A reply is refused if it has no block of the preset, whatever a block holds.
Fetch ==
    /\ pc = "fetch"
    /\ \E present \in SUBSET Blocks :
          \E current \in CurrentContents, hourly, daily \in ColumnContents :
             raw' = [b \in present |->
                        CASE b = "current" -> current [] b = "hourly" -> hourly
                          [] OTHER -> daily]
    /\ IF DOMAIN raw' \cap PRESETS[Preset(arguments)] = {} THEN Return(Failure("service"))
       ELSE Goto("normalize") /\ UNCHANGED result
    /\ asked' = [asked EXCEPT !.days = Unset, !.hours = Unset]
    /\ UNCHANGED <<arguments, places, best>>

----------------------------------------------------------------------------
(* From columns to rows.  A block is null, no object, or an object whose   *)
(* columns are lists of readings or, in the current block, single ones.  A *)
(* column that is no list may be null or anything false, a text or object  *)
(* (which enumerate takes for its characters or keys), or something else.  *)

IsObject(content) == content.type = "object"
IsList(column) == column.type = "list"
Keys(content) == DOMAIN content.columns \ {"time"}

\* columns.get("time") or []
Times(columns) ==
    IF "time" \in DOMAIN columns /\ columns["time"].type \in {"list", "keys"}
    THEN columns["time"].values
    ELSE <<>>

WithDescription(row) ==
    IF "weather_code" \in DOMAIN row
    THEN [k \in DOMAIN row \cup {"weather_description"} |->
             IF k = "weather_description" THEN DescribeWeatherCode(row["weather_code"])
             ELSE row[k]]
    ELSE row

\* The row of a time at which some variables have a reading.
RowOf(block, reading, time) ==
    WithDescription([k \in {"time"} \cup {Renamed(block, key) : key \in DOMAIN reading} |->
                        IF k = "time" THEN time
                        ELSE reading[CHOOSE key \in DOMAIN reading : Renamed(block, key) = k]])

LongEnoughByOne(content, i) ==                             \* mutant
    {k \in Keys(content) : IsList(content.columns[k]) /\ i < Len(content.columns[k].values)}

LongEnough(content, i) ==
    {k \in Keys(content) : IsList(content.columns[k]) /\ i <= Len(content.columns[k].values)}

RowsFromColumns(content, block) ==
    LET times == Times(content.columns) IN
    [i \in 1..Len(times) |->
        RowOf(block, [k \in LongEnough(content, i) |-> content.columns[k].values[i]], times[i])]

CurrentRow(content) ==
    RowOf("current", [k \in Keys(content) |-> content.columns[k].value],
          IF "time" \in DOMAIN content.columns THEN content.columns["time"].value ELSE "null")

\* null, and a list of no rows, leave the block out of the answer.
NormalizeBlock(block, content) ==
    CASE content.type = "null" -> <<>>
      [] block = "current" -> <<CurrentRow(content)>>
      [] OTHER -> RowsFromColumns(content, block)

\* get and items need an object, enumerate a list, int() a number.
Raises(block, content) ==
    \/ content.type = "other"
    \/ /\ IsObject(content) /\ block # "current"
       /\ "time" \in DOMAIN content.columns /\ content.columns["time"].type = "other"
    \/ /\ IsObject(content) /\ block = "current"
       /\ "weather_code" \in Keys(content) /\ content.columns["weather_code"].value = "text"
    \/ /\ IsObject(content) /\ block # "current" /\ "weather_code" \in Keys(content)
       /\ \E i \in 1..Len(Times(content.columns)) :
             "weather_code" \in LongEnough(content, i)
                 /\ content.columns["weather_code"].values[i] = "text"

Normalize ==
    /\ pc = "normalize"
    /\ IF \E b \in DOMAIN raw : Raises(b, raw[b]) THEN Return(Failure("execution"))
       ELSE LET rows == [b \in DOMAIN raw |-> NormalizeBlock(b, raw[b])] IN
            Return([ok |-> TRUE, preset |-> Preset(arguments), at |-> best,
                    data |-> [b \in {d \in DOMAIN rows : rows[d] # <<>>} |-> rows[b]]])
    /\ UNCHANGED <<arguments, places, best, asked, raw>>

Next == \/ Dispatch \/ Validate \/ Announce \/ NotServed \/ Geocode \/ Rank
        \/ BuildForecastParams \/ Fetch \/ Normalize

Spec == Init /\ [][Next]_vars

----------------------------------------------------------------------------
(* Properties *)

\* WEATHER_FORECAST_TOOL, the schema the model writes its arguments from.  3.0
\* is no integer to it, as in the JSON Schema drafts before 6.
SchemaNumber(v, types, maximum) ==
    v = Missing \/ (v.type \in types /\ (v.type = "integer" => v.number \in 1..maximum))

SchemaAllows(a) ==
    /\ a.location.type \in {"missing", "string", "null"}
    /\ a.preset = Missing \/ a.preset \in {Text(p) : p \in DOMAIN PRESETS}
    /\ SchemaNumber(a.days, {"integer"}, 16)
    /\ SchemaNumber(a.hours, {"integer", "null"}, 168)

\* The validation and the published schema, written apart from each other,
\* agree: a model is told to correct its arguments only if the schema does not
\* allow them or the location is blank, and no others pass but days of null.
\* What is then asked of the service stays within the schema's limits
\* (_validate_arguments, build_forecast_params).
ArgumentsFollowSchema ==
    [][/\ pc = "validate" =>
             (result'.error = "arguments"
                <=> \/ ~SchemaAllows([arguments EXCEPT !.days = IF @ = Null THEN Missing ELSE @])
                    \/ arguments.location = Text("blank"))
       /\ pc' = "fetch" => asked'.days \in 0..16 /\ asked'.hours \in 0..168]_vars

\* A block as the code expects it: null, or an object of one list per
\* variable, or of one reading in the current block, whose weather codes are
\* numbers; any of them may be missing, short or null, as a whole or in part.
Expected(block, content) ==
    /\ content.type \in {"null", "object"}
    /\ IsObject(content) =>
          \A k \in DOMAIN content.columns :
             IF block = "current" THEN k = "weather_code" => content.columns[k].value # "text"
             ELSE /\ content.columns[k].type \in {"list", "null"}
                  /\ k = "weather_code" /\ IsList(content.columns[k]) =>
                        \A i \in DOMAIN content.columns[k].values :
                           content.columns[k].values[i] # "text"

\* A failure names whose fault it is: the tool itself is said to have failed
\* only for a callback that raised, an exception httpx does not document, a
\* result whose region is null or no text when a region was asked for, or a
\* block of another shape; never for results without a region, for places
\* that nobody asked a region of, blocks left out or null, columns that are
\* null or of unequal length or readings that are null.  "not found" and
\* "service" come from the services' replies only.
FailuresNameTheirCause ==
    [][pc' = "done" /\ ~result'.ok =>
          CASE result'.error = "execution" ->
                 \/ pc \in {"announce", "geocode", "fetch"}
                 \/ /\ pc = "rank" /\ arguments.location.qualifier # ""
                    /\ \E i \in DOMAIN places : places[i].admin1 \in {"null", "other"}
                 \/ pc = "normalize" /\ \E b \in DOMAIN raw : ~Expected(b, raw[b])
            [] result'.error = "not found" -> pc = "geocode"
            [] result'.error = "service" ->
                 \/ pc = "geocode"
                 \/ pc = "rank" /\ \E i \in DOMAIN places : ~places[i].located
                 \/ pc = "fetch" /\ PRESETS[Preset(arguments)] \cap DOMAIN raw' = {}
            [] OTHER -> pc \in {"dispatch", "validate", "announce"}]_vars

\* The row of a block says of a time what the columns say: the reading of each
\* variable at that time, and no other.
Agrees(row, block, time, reading) ==
    /\ row["time"] = time
    /\ \A k \in DOMAIN reading :
          Renamed(block, k) \in DOMAIN row /\ row[Renamed(block, k)] = reading[k]
    /\ DOMAIN row \ {"time", "weather_description"}
          = {Renamed(block, k) : k \in DOMAIN reading}

\* The place of the forecast is the first of the service's results that lie in
\* the region asked for, whether it was abbreviated or not, and its first one
\* at all if none does or no region was asked for; the forecast is asked for at
\* its coordinates, and the answer names it and no other.  And an answer has a
\* row for each time of a block, in order, with the reading of each variable
\* at that time and no other, and the current block's single row
\* (_rank_results, build_forecast_params, rows_from_columns).
AnswersFollowTheReplies ==
    [][/\ pc = "rank" /\ pc' = "build" =>
             LET inRegion == {i \in DOMAIN places : places[i].admin1 = Region}
             IN best' = places[IF inRegion = {} THEN 1
                               ELSE CHOOSE i \in inRegion : \A j \in inRegion : i <= j].at
       /\ pc' = "fetch" => asked'.at = best
       /\ pc = "normalize" /\ result'.ok =>
             LET Rows(b) == IF b \in DOMAIN result'.data THEN result'.data[b] ELSE <<>>
             IN /\ result'.at = asked.at
                /\ \A b \in Blocks : b \notin DOMAIN raw => Rows(b) = <<>>
                /\ \A b \in DOMAIN raw : ~IsObject(raw[b]) => Rows(b) = <<>>
                /\ \A b \in DOMAIN raw \ {"current"} : IsObject(raw[b]) =>
                      LET columns == raw[b].columns
                          Has(k, i) == IsList(columns[k]) /\ i \in DOMAIN columns[k].values
                      IN /\ Len(Rows(b)) = Len(Times(columns))
                         /\ \A i \in DOMAIN Rows(b) :
                               Agrees(Rows(b)[i], b, Times(columns)[i],
                                      [k \in {c \in DOMAIN columns \ {"time"} : Has(c, i)} |->
                                          columns[k].values[i]])
                /\ "current" \in DOMAIN raw /\ IsObject(raw["current"]) =>
                      LET columns == raw["current"].columns
                      IN /\ Len(Rows("current")) = 1
                         /\ Agrees(Rows("current")[1], "current",
                                   IF "time" \in DOMAIN columns THEN columns["time"].value
                                   ELSE "null",
                                   [k \in DOMAIN columns \ {"time"} |-> columns[k].value])]_vars
=============================================================================
