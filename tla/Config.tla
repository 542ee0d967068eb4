------------------------------- MODULE Config -------------------------------
(***************************************************************************)
(* The inspection configuration: the raw InspectionConfig, its JSON form,  *)
(* the two conversions, validate_config, and the checks the stages repeat  *)
(* on the values a validated configuration hands them.                     *)
(*                                                                         *)
(* A std::optional is the set of its value, and so is a string that        *)
(* validation requires to be non-empty.  A double is an integer or         *)
(* NonFinite.  A JSON value is <<type, value>>, <<"absent">> or <<"null">>;*)
(* a call that fails returns the empty set.                                *)
(***************************************************************************)
EXTENDS Integers, Sequences, FiniteSetsExt

CONSTANTS
    NonFinite,                    \* a NaN or an infinity
    UInt32Modulus, UInt64Modulus, \* 2^32 and 2^64, scaled down
    Profile,                      \* the configuration the caller starts from
    RawValues,                    \* kind -> what the caller may set a field to
    JsonValues,                   \* kind -> what an author may write for a field
    Edits                         \* bound: changes by caller and author together

ASSUME ConfigAssumption == /\ UInt32Modulus \in Nat /\ UInt32Modulus > 1024
                           /\ UInt64Modulus \in Nat /\ UInt64Modulus > UInt32Modulus
                           /\ NonFinite \in Nat /\ NonFinite > UInt64Modulus
                           /\ Edits \in Nat

VARIABLES
    config,    \* the InspectionConfig in memory
    document,  \* {} or the JSON text
    source,    \* {} or what document was serialized from, unchanged since
    stage, error, edits

vars == <<config, document, source, stage, error, edits>>

-----------------------------------------------------------------------------
(***************************************************************************)
(* Fields and what each of them must satisfy                               *)
(***************************************************************************)
FieldsOf ==
    [document |-> {"schema_version", "profile"},
     input |-> {"reference_unit", "scan_unit", "reference_frame", "scan_frame"},
     preprocess |-> {"voxel_size_mm", "normal_radius_mm", "normal_min_neighbors",
                     "boundary_radius_mm"},
     registration |-> {"max_iterations", "max_correspondence_distance_mm", "huber_delta_mm",
                       "translation_epsilon_mm", "rotation_epsilon_rad", "residual_epsilon_mm",
                       "method"},
     registration_gate |-> {"min_overlap_ratio", "max_inlier_rmse_mm", "min_valid_pairs",
                            "max_translation_from_initial_mm", "max_rotation_from_initial_deg"},
     comparison |-> {"max_search_distance_mm", "max_normal_angle_deg", "boundary_exclusion_mm",
                     "min_valid_coverage_ratio"},
     detection |-> {"positive_threshold_mm", "negative_threshold_mm", "cluster_tolerance_mm",
                    "min_cluster_points", "measurement_error_budget_mm"},
     execution |-> {"deterministic", "thread_count", "random_seed", "backend"}]

Sections == DOMAIN FieldsOf
Fields == UNION {FieldsOf[s] : s \in Sections}
SectionOf == [f \in Fields |-> CHOOSE s \in Sections : f \in FieldsOf[s]]

Special == [schema |-> {"schema_version"}, profile |-> {"profile"},
            unit |-> {"reference_unit", "scan_unit"},
            frame |-> {"reference_frame", "scan_frame"},
            neighbors |-> {"normal_min_neighbors"}, iterations |-> {"max_iterations"},
            count |-> {"min_valid_pairs", "min_cluster_points", "thread_count"},
            ratio |-> {"min_overlap_ratio", "min_valid_coverage_ratio"},
            rotation |-> {"max_rotation_from_initial_deg"}, angle |-> {"max_normal_angle_deg"},
            nonnegative |-> {"boundary_exclusion_mm", "measurement_error_budget_mm"},
            negative |-> {"negative_threshold_mm"}, flag |-> {"deterministic"},
            seed |-> {"random_seed"}, method |-> {"method"}, backend |-> {"backend"}]

\* Every field that is not special is a length that must be positive.
Kind == [f \in Fields |-> IF \E k \in DOMAIN Special : f \in Special[k]
                          THEN CHOOSE k \in DOMAIN Special : f \in Special[k]
                          ELSE "positive"]

Doubles == {"positive", "nonnegative", "negative", "ratio", "rotation", "angle"}
UInts == {"neighbors", "iterations", "count"}
Units == {"millimeter", "meter", "micrometer"}
Methods == {"point_to_plane", "point_to_point", "gicp"}
Backends == {"cpu", "gpu", "auto"}

\* The values a field of the kind can hold, and a field of the text.
IsValue(kind, v) ==
    CASE kind \in Doubles -> v \in Int
      [] kind \in UInts -> v \in 0 .. UInt32Modulus - 1
      [] kind = "seed" -> v \in 0 .. UInt64Modulus - 1
      [] kind = "flag" -> v \in BOOLEAN
      [] OTHER -> v # ""
IsOptional(kind, x) == \A v, w \in x : IsValue(kind, v) /\ v = w
IsJson(j) == \/ j \in {<<"absent">>, <<"null">>}
             \/ j = <<"number", j[2]>> /\ j[2] \in Int
             \/ j = <<"string", j[2]>>
             \/ j = <<"boolean", j[2]>> /\ j[2] \in BOOLEAN

ASSUME ValuesAssumption ==
    /\ Profile = [f \in Fields |-> Profile[f]]
    /\ \A f \in Fields : IsOptional(Kind[f], Profile[f])
    /\ \A f \in Fields : \A x \in RawValues[Kind[f]] : IsOptional(Kind[f], x)
    /\ \A f \in Fields : \A j \in JsonValues[Kind[f]] : IsJson(j)

\* Fault: the upper bound is left to registration.
IterationsUncapped(v) == v >= 1

IterationsRule(v) == v \in 1..1000

\* The finite, range and sign rules, and the enumerators supported.
Rule(kind, v) ==
    CASE kind = "schema" -> v = "1.0"
      [] kind = "profile" -> v # "malformed"
      [] kind = "unit" -> v \in Units
      [] kind = "neighbors" -> v >= 3
      [] kind = "iterations" -> IterationsRule(v)
      [] kind = "count" -> v >= 1
      [] kind = "positive" -> v # NonFinite /\ v > 0
      [] kind = "nonnegative" -> v # NonFinite /\ v >= 0
      [] kind = "negative" -> v # NonFinite /\ v < 0
      [] kind = "ratio" -> v \in 0..1
      [] kind = "angle" -> v \in 0..90
      [] kind = "rotation" -> v \in 1..180
      [] kind = "method" -> v \in Methods
      [] kind = "backend" -> v \in Backends
      [] OTHER -> TRUE

-----------------------------------------------------------------------------
(***************************************************************************)
(* validate_config                                                         *)
(***************************************************************************)
Required(f) == <<f, "required">>
Ruled(f) == <<f, "rule">>
Exceeds(f) == <<f, "budget">>
Each(fields) == [i \in 1 .. 2 * Len(fields) |-> IF i % 2 = 1 THEN Required(fields[(i + 1) \div 2])
                                                ELSE Ruled(fields[i \div 2])]

\* The checks in the order of the code.  A frame, a flag and a seed have no
\* rule, a method and a backend are never unset.
HeadFields == <<"schema_version", "profile">>
UnitChecks == <<Required("reference_unit"), Required("scan_unit"),
                Ruled("reference_unit"), Ruled("scan_unit")>>
SettingFields ==
    <<"reference_frame", "scan_frame", "voxel_size_mm", "normal_radius_mm", "normal_min_neighbors",
      "boundary_radius_mm", "max_iterations", "max_correspondence_distance_mm", "huber_delta_mm",
      "translation_epsilon_mm", "rotation_epsilon_rad", "residual_epsilon_mm", "min_overlap_ratio",
      "max_inlier_rmse_mm", "min_valid_pairs", "max_translation_from_initial_mm",
      "max_rotation_from_initial_deg", "max_search_distance_mm", "max_normal_angle_deg",
      "boundary_exclusion_mm", "min_valid_coverage_ratio", "positive_threshold_mm",
      "negative_threshold_mm", "cluster_tolerance_mm", "min_cluster_points",
      "measurement_error_budget_mm">>
BudgetChecks == <<Exceeds("positive_threshold_mm"), Exceeds("negative_threshold_mm")>>
ExecutionFields == <<"deterministic", "thread_count", "random_seed", "method", "backend">>

Checks == Each(HeadFields) \o UnitChecks \o Each(SettingFields) \o BudgetChecks \o Each(ExecutionFields)

Magnitude(v) == IF v < 0 THEN -v ELSE v

Broken(c, check) ==
    LET f == check[1]
    IN  \/ check[2] = "required" /\ c[f] = {}
        \/ check[2] = "rule" /\ \E v \in c[f] : ~Rule(Kind[f], v)
        \/ /\ check[2] = "budget"
           /\ \E v \in c[f], b \in c["measurement_error_budget_mm"] : Magnitude(v) <= b

\* The field and the reason of the error, {} for a validated configuration.
validate_config(c) ==
    LET broken == {i \in DOMAIN Checks : Broken(c, Checks[i])}
    IN  IF broken = {} THEN {} ELSE {Checks[Min(broken)]}

-----------------------------------------------------------------------------
(***************************************************************************)
(* serialize_config and parse_config                                       *)
(***************************************************************************)
Null == <<"null">>
Absent == <<"absent">>
The(set, default) == IF set = {} THEN default ELSE CHOOSE v \in set : TRUE

\* Fault: a number that is not finite is written as zero.
optional_number_zero(x) ==
    IF x = {} THEN Null ELSE <<"number", IF x = {NonFinite} THEN 0 ELSE The(x, 0)>>

optional_number(x) == IF x \in {{}, {NonFinite}} THEN Null ELSE <<"number", The(x, 0)>>

unit_to_string(u) == IF u \in Units THEN u ELSE "millimeter"

config_to_json(c) ==
    [sections |-> [s \in Sections |-> "object"],
     fields |-> [f \in Fields |->
        LET k == Kind[f]
        IN  CASE k \in {"schema", "profile", "frame"} -> <<"string", The(c[f], "")>>
              [] k = "unit" -> <<"string", IF c[f] = {} THEN "" ELSE unit_to_string(The(c[f], ""))>>
              [] k = "method" -> <<"string", IF c[f] \subseteq Methods THEN The(c[f], "") ELSE "unknown">>
              [] k = "backend" -> <<"string", IF c[f] \subseteq Backends THEN The(c[f], "") ELSE "unknown">>
              [] k = "flag" -> IF c[f] = {} THEN Null ELSE <<"boolean", The(c[f], FALSE)>>
              [] OTHER -> optional_number(c[f])]]

\* dump() throws on a string that is not UTF-8.
serialize_config(c) == IF "malformed" \in c["profile"] THEN {} ELSE {config_to_json(c)}

Present(d, f) == d.sections[SectionOf[f]] = "object" /\ d.fields[f] # Absent
Given(d, f) == Present(d, f) /\ d.fields[f] # Null
IsString(j, strings) == j[1] = "string" /\ j[2] \in strings

\* get<T> of the field's type throws, or the string is not one of the names.
WrongValue(d, f) ==
    LET k == Kind[f]
        j == d.fields[f]
    IN  CASE k = "schema" -> ~Present(d, f) \/ ~IsString(j, {"1.0"})
          [] k = "profile" -> Present(d, f) /\ j[1] # "string"
          [] k = "method" -> Present(d, f) /\ ~IsString(j, Methods)
          [] k = "backend" -> Present(d, f) /\ ~IsString(j, Backends)
          [] k = "unit" -> Given(d, f) /\ ~IsString(j, Units)
          [] k = "frame" -> Given(d, f) /\ (j[1] # "string" \/ j[2] = "")
          [] k = "flag" -> Given(d, f) /\ j[1] # "boolean"
          [] k \in UInts -> Given(d, f) /\ j[1] \notin {"number", "boolean"}
          [] OTHER -> Given(d, f) /\ j[1] # "number"

\* document.is_object() fails, value() is called on a section that is no object.
WrongShape(d) == \/ d.sections.document # "object"
                 \/ "scalar" \in {d.sections.registration, d.sections.execution}

\* Fault: a missing flag is read as false.
optional_bool_false(d, f) == {IF Given(d, f) THEN d.fields[f][2] ELSE FALSE}

optional_bool(d, f) == IF Given(d, f) THEN {d.fields[f][2]} ELSE {}

\* The field as json_to_config reads it: get<uint32_t> and get<uint64_t>
\* convert any number modulo the width.
Value(d, f) ==
    LET k == Kind[f]
        j == d.fields[f]
    IN  IF k = "method" /\ ~Present(d, f) THEN {"point_to_plane"}
        ELSE IF k = "backend" /\ ~Present(d, f) THEN {"cpu"}
        ELSE IF k = "flag" THEN optional_bool(d, f)
        ELSE IF ~Given(d, f) THEN {}
        ELSE CASE k = "profile" -> {j[2]} \ {""}
               [] k \in UInts -> {IF j[1] # "boolean" THEN j[2] % UInt32Modulus ELSE IF j[2] THEN 1 ELSE 0}
               [] k = "seed" -> {j[2] % UInt64Modulus}
               [] OTHER -> {j[2]}

parse_config(d) == IF WrongShape(d) \/ \E f \in Fields : WrongValue(d, f)
                   THEN {}
                   ELSE {[f \in Fields |-> Value(d, f)]}

-----------------------------------------------------------------------------
(***************************************************************************)
(* The checks the stages repeat                                            *)
(***************************************************************************)
FinitePositive(v) == v # NonFinite /\ v > 0

\* covariance_neighbors, covariance_epsilon and cpu_kernel keep their defaults.
to_registration_parameters(c) ==
    [f \in FieldsOf.registration \union {"thread_count"} |-> CHOOSE v \in c[f] : TRUE]

CovarianceNeighbors == 12

validate_registration_parameters(p) ==
    /\ p["thread_count"] # 0
    /\ p["method"] \in Methods
    /\ CovarianceNeighbors \in 3..1024
    /\ p["max_iterations"] \in 1..1000
    /\ \A f \in FieldsOf.registration \ {"method", "max_iterations"} : FinitePositive(p[f])

\* voxel_sample, prepare_normals_and_boundaries and euclidean_cluster.
SizesAccepted(c) ==
    /\ \A v \in c["normal_min_neighbors"] : v >= 3
    /\ \A f \in {"voxel_size_mm", "normal_radius_mm", "boundary_radius_mm",
                 "cluster_tolerance_mm"} : \A v \in c[f] : FinitePositive(v)

-----------------------------------------------------------------------------
Init == /\ config = Profile
        /\ document = {}
        /\ source = {}
        /\ stage = "edit"
        /\ error = {}
        /\ edits = 0

\* The caller sets or clears a field.
SetField(f, x) == /\ stage = "edit"
                  /\ edits' = edits + 1
                  /\ config' = [config EXCEPT ![f] = x]
                  /\ UNCHANGED <<document, source, stage, error>>

\* serialize_config: the text, or an error.
Serialize == /\ stage = "edit"
             /\ document' = serialize_config(config)
             /\ source' = {config}
             /\ stage' = IF document' = {} THEN "unserializable" ELSE "text"
             /\ UNCHANGED <<config, error, edits>>

\* An author changes one field of the text,
Author(f, j) == /\ stage = "text"
                /\ edits' = edits + 1
                /\ document' = {[d EXCEPT !.fields[f] = j] : d \in document}
                /\ source' = {}
                /\ UNCHANGED <<config, stage, error>>

\* or replaces a section, the whole text included, by something else.
AuthorSection(s, shape) == /\ stage = "text"
                           /\ edits' = edits + 1
                           /\ document' = {[d EXCEPT !.sections[s] = shape] : d \in document}
                           /\ source' = {}
                           /\ UNCHANGED <<config, stage, error>>

Parse == /\ stage = "text"
         /\ LET parsed == UNION {parse_config(d) : d \in document}
            IN  /\ stage' = IF parsed = {} THEN "unparsable" ELSE "parsed"
                /\ config' = The(parsed, config)
         /\ UNCHANGED <<document, source, error, edits>>

Validate == /\ stage \in {"edit", "parsed"}
            /\ error' = validate_config(config)
            /\ stage' = IF error' = {} THEN "accepted" ELSE "refused"
            /\ UNCHANGED <<config, document, source, edits>>

Change == /\ edits < Edits
          /\ \/ \E f \in Fields : \E x \in RawValues[Kind[f]] : SetField(f, x)
             \/ \E f \in Fields : \E j \in JsonValues[Kind[f]] : Author(f, j)
             \/ \E s \in Sections, shape \in {"absent", "scalar"} : AuthorSection(s, shape)

Next == Change \/ Serialize \/ Parse \/ Validate

Spec == Init /\ [][Next]_vars

-----------------------------------------------------------------------------
\* What serialize_config wrote and parse_config read back is judged as the
\* configuration it was written from: an accepted one comes back as it was,
\* one that validate_config refuses is refused by the parser or at the same
\* field, although unset, NaN and absent have become one and the same null.
\* Unsupported unit enumerators, which are written as millimeter, excepted.
RoundTripFaithful ==
    stage \in {"unparsable", "accepted", "refused"} =>
        \A c \in source :
            c["reference_unit"] \union c["scan_unit"] \subseteq Units =>
                IF validate_config(c) = {}
                THEN stage = "accepted" /\ config = c
                ELSE \/ stage = "unparsable"
                     \/ {e[1] : e \in error} = {e[1] : e \in validate_config(c)}

\* A configuration that validate_config accepted, whichever way it came, is
\* refused by no stage of the pipeline, and its detection thresholds exceed
\* the error budget: validate_config is at least as strict as every check
\* that registration, preprocessing and clustering make on its values.
AcceptedEverywhere ==
    stage = "accepted" =>
        /\ validate_registration_parameters(to_registration_parameters(config))
        /\ SizesAccepted(config)
        /\ \A b \in config["measurement_error_budget_mm"] :
              /\ \A v \in config["positive_threshold_mm"] : v > b
              /\ \A v \in config["negative_threshold_mm"] : v < -b

\* A document that is accepted gives every setting except the method and the
\* backend itself, whatever sections or fields its author left out or made
\* null: no default ever completes a configuration that omits a threshold.
NoImplicitDefault ==
    stage = "accepted" =>
        \A d \in document : \A f \in Fields \ {"method", "backend"} : Given(d, f)
=============================================================================
