---------------------------- MODULE ConfigProofs ----------------------------
(***************************************************************************)
(* Proofs about Config for any values a caller or an author may give any   *)
(* number of fields: what an accepted configuration is worth to the stages *)
(* that use it, and what survives a round trip through JSON.               *)
(***************************************************************************)
EXTENDS Config, WellFoundedInduction, NaturalsInduction, TLAPS

-----------------------------------------------------------------------------
(***************************************************************************)
(* Fields and kinds                                                        *)
(***************************************************************************)
\* A kind other than "positive" is the kind of the fields Special gives it.
LEMMA KindIsSpecial ==
    ASSUME NEW f \in Fields, Kind[f] # "positive"
    PROVE  Kind[f] \in DOMAIN Special /\ f \in Special[Kind[f]]
  <1>1. \E k \in DOMAIN Special : f \in Special[k]
    BY DEF Kind
  <1>2. Kind[f] = CHOOSE k \in DOMAIN Special : f \in Special[k]
    BY <1>1 DEF Kind
  <1> QED BY <1>1, <1>2

\* No field is of two special kinds.
LEMMA SpecialDisjoint ==
    ASSUME NEW j \in DOMAIN Special, NEW k \in DOMAIN Special, NEW f,
           f \in Special[j], f \in Special[k]
    PROVE  j = k
  BY DEF Special

LEMMA KindOfSpecial ==
    ASSUME NEW f \in Fields, NEW k \in DOMAIN Special, f \in Special[k]
    PROVE  Kind[f] = k
  <1>1. Kind[f] = CHOOSE j \in DOMAIN Special : f \in Special[j]
    BY DEF Kind
  <1> QED BY <1>1, SpecialDisjoint

LEMMA KindOfOther ==
    ASSUME NEW f \in Fields, \A k \in DOMAIN Special : f \notin Special[k]
    PROVE  Kind[f] = "positive"
  BY DEF Kind

PositiveFields == {"voxel_size_mm", "normal_radius_mm", "boundary_radius_mm", "cluster_tolerance_mm",
                   "positive_threshold_mm", "max_correspondence_distance_mm", "huber_delta_mm",
                   "translation_epsilon_mm", "rotation_epsilon_rad", "residual_epsilon_mm"}

LEMMA KindsUsed ==
    /\ \A f \in PositiveFields : f \in Fields /\ Kind[f] = "positive"
    /\ "negative_threshold_mm" \in Fields /\ Kind["negative_threshold_mm"] = "negative"
    /\ "measurement_error_budget_mm" \in Fields /\ Kind["measurement_error_budget_mm"] = "nonnegative"
    /\ "normal_min_neighbors" \in Fields /\ Kind["normal_min_neighbors"] = "neighbors"
    /\ "max_iterations" \in Fields /\ Kind["max_iterations"] = "iterations"
    /\ "thread_count" \in Fields /\ Kind["thread_count"] = "count"
    /\ "method" \in Fields /\ Kind["method"] = "method"
    /\ "backend" \in Fields /\ Kind["backend"] = "backend"
    /\ "profile" \in Fields /\ Kind["profile"] = "profile"
    /\ "schema_version" \in Fields /\ Kind["schema_version"] = "schema"
  <1>1. /\ PositiveFields \subseteq Fields
        /\ {"negative_threshold_mm", "measurement_error_budget_mm", "normal_min_neighbors",
            "max_iterations", "thread_count", "method", "backend", "profile",
            "schema_version"} \subseteq Fields
    BY DEF PositiveFields, Fields, Sections, FieldsOf
  <1>2. \A f \in PositiveFields : Kind[f] = "positive"
    <2>1. \A f \in PositiveFields : \A k \in DOMAIN Special : f \notin Special[k]
      BY DEF PositiveFields, Special
    <2> QED BY <1>1, <2>1, KindOfOther
  <1>3. /\ "negative" \in DOMAIN Special /\ "negative_threshold_mm" \in Special["negative"]
        /\ "nonnegative" \in DOMAIN Special /\ "measurement_error_budget_mm" \in Special["nonnegative"]
        /\ "neighbors" \in DOMAIN Special /\ "normal_min_neighbors" \in Special["neighbors"]
        /\ "iterations" \in DOMAIN Special /\ "max_iterations" \in Special["iterations"]
        /\ "count" \in DOMAIN Special /\ "thread_count" \in Special["count"]
        /\ "method" \in DOMAIN Special /\ "method" \in Special["method"]
        /\ "backend" \in DOMAIN Special /\ "backend" \in Special["backend"]
        /\ "profile" \in DOMAIN Special /\ "profile" \in Special["profile"]
        /\ "schema" \in DOMAIN Special /\ "schema_version" \in Special["schema"]
    BY DEF Special
  <1> QED BY <1>1, <1>2, <1>3, KindOfSpecial

-----------------------------------------------------------------------------
(***************************************************************************)
(* The order of the checks                                                 *)
(***************************************************************************)
\* Every check of s that a number is there is followed by the check of its
\* rule, and the other way round.
Paired(s) ==
    \A f \in Fields, i \in DOMAIN s :
        Kind[f] \in Doubles =>
            /\ s[i] = Required(f) => i + 1 \in DOMAIN s /\ s[i + 1] = Ruled(f)
            /\ s[i] = Ruled(f) => i - 1 \in DOMAIN s /\ s[i - 1] = Required(f)

Triple == Fields \X {"required", "rule", "budget"}

LEMMA EachPaired ==
    ASSUME NEW F \in Seq(Fields)
    PROVE  /\ Each(F) \in Seq(Triple)
           /\ Len(Each(F)) = 2 * Len(F)
           /\ \A i \in 1 .. Len(F) : /\ 2 * i - 1 \in DOMAIN Each(F) /\ Each(F)[2 * i - 1] = Required(F[i])
                                     /\ 2 * i \in DOMAIN Each(F) /\ Each(F)[2 * i] = Ruled(F[i])
           /\ \A i \in DOMAIN Each(F) : Each(F)[i][2] # "budget"
           /\ Paired(Each(F))
  <1> DEFINE n == Len(F)
             E == Each(F)
  <1>1. n \in Nat /\ DOMAIN F = 1 .. n /\ \A i \in 1 .. n : F[i] \in Fields
    OBVIOUS
  <1>2. DOMAIN E = 1 .. 2 * n
    BY DEF Each
  <1>3. \A i \in 1 .. n : /\ 2 * i - 1 \in DOMAIN E /\ E[2 * i - 1] = Required(F[i])
                          /\ 2 * i \in DOMAIN E /\ E[2 * i] = Ruled(F[i])
    <2> SUFFICES ASSUME NEW i \in 1 .. n
                 PROVE  /\ 2 * i - 1 \in DOMAIN E /\ E[2 * i - 1] = Required(F[i])
                        /\ 2 * i \in DOMAIN E /\ E[2 * i] = Ruled(F[i])
      OBVIOUS
    <2>1. 2 * i - 1 \in 1 .. 2 * n /\ 2 * i \in 1 .. 2 * n
      BY <1>1
    <2>2. (2 * i - 1) % 2 = 1 /\ (2 * i - 1 + 1) \div 2 = i /\ (2 * i) % 2 = 0 /\ (2 * i) \div 2 = i
      BY <1>1
    <2> QED BY <2>1, <2>2, <1>2 DEF Each
  <1>4. \A i \in 1 .. 2 * n : \E k \in 1 .. n : i = 2 * k - 1 \/ i = 2 * k
    <2> SUFFICES ASSUME NEW i \in 1 .. 2 * n
                 PROVE  \E k \in 1 .. n : i = 2 * k - 1 \/ i = 2 * k
      OBVIOUS
    <2>1. (i + 1) \div 2 \in 1 .. n /\ (i = 2 * ((i + 1) \div 2) - 1 \/ i = 2 * ((i + 1) \div 2))
      BY <1>1
    <2> QED BY <2>1
  <1>5. \A i \in 1 .. 2 * n : E[i] \in Triple /\ E[i][2] # "budget"
    <2> SUFFICES ASSUME NEW i \in 1 .. 2 * n
                 PROVE  E[i] \in Triple /\ E[i][2] # "budget"
      OBVIOUS
    <2> HIDE DEF E, n
    <2>1. PICK k \in 1 .. n : i = 2 * k - 1 \/ i = 2 * k
      BY <1>4
    <2>2. E[i] = Required(F[k]) \/ E[i] = Ruled(F[k])
      BY <2>1, <1>3
    <2>3. F[k] \in Fields
      BY <1>1
    <2>4. Required(F[k]) \in Triple /\ Ruled(F[k]) \in Triple
      BY <2>3 DEF Required, Ruled, Triple
    <2>5. Required(F[k])[2] # "budget" /\ Ruled(F[k])[2] # "budget"
      BY DEF Required, Ruled
    <2> QED BY <2>2, <2>4, <2>5
  <1>6. E \in Seq(Triple) /\ Len(E) = 2 * n
    <2>1. E \in [1 .. 2 * n -> Triple]
      BY <1>2, <1>5 DEF Each
    <2>2. 2 * n \in Nat
      BY <1>1
    <2> HIDE DEF E, n
    <2> QED BY <2>1, <2>2
  <1>7. Paired(E)
    <2> SUFFICES ASSUME NEW f \in Fields, NEW i \in 1 .. 2 * n
                 PROVE  /\ E[i] = Required(f) => i + 1 \in DOMAIN E /\ E[i + 1] = Ruled(f)
                        /\ E[i] = Ruled(f) => i - 1 \in DOMAIN E /\ E[i - 1] = Required(f)
      BY <1>2 DEF Paired
    <2>1. PICK k \in 1 .. n : i = 2 * k - 1 \/ i = 2 * k
      BY <1>4
    <2> HIDE DEF E, n
    <2>2. CASE i = 2 * k - 1
      <3>1. E[i] = Required(F[k]) /\ i + 1 = 2 * k
        BY <2>2, <1>3, <1>1
      <3> QED BY <3>1, <1>3 DEF Required, Ruled
    <2>3. CASE i = 2 * k
      <3>1. E[i] = Ruled(F[k]) /\ i - 1 = 2 * k - 1
        BY <2>3, <1>3, <1>1
      <3> QED BY <3>1, <1>3 DEF Required, Ruled
    <2> QED BY <2>1, <2>2, <2>3
  <1> QED BY <1>2, <1>3, <1>5, <1>6, <1>7

\* What the parts of a concatenation have, it has; and its order.
LEMMA ConcatPaired ==
    ASSUME NEW s \in Seq(Triple), NEW t \in Seq(Triple), Paired(s), Paired(t)
    PROVE  s \o t \in Seq(Triple) /\ Paired(s \o t)
  <1> DEFINE u == s \o t
  <1>1. /\ u \in Seq(Triple) /\ Len(u) = Len(s) + Len(t)
        /\ DOMAIN u = 1 .. Len(s) + Len(t)
        /\ \A i \in 1 .. Len(s) : u[i] = s[i]
        /\ \A i \in 1 .. Len(t) : u[Len(s) + i] = t[i]
        /\ Len(s) \in Nat /\ Len(t) \in Nat /\ DOMAIN s = 1 .. Len(s) /\ DOMAIN t = 1 .. Len(t)
    OBVIOUS
  <1> HIDE DEF u
  <1> SUFFICES ASSUME NEW f \in Fields, NEW i \in DOMAIN u, Kind[f] \in Doubles
               PROVE  /\ u[i] = Required(f) => i + 1 \in DOMAIN u /\ u[i + 1] = Ruled(f)
                      /\ u[i] = Ruled(f) => i - 1 \in DOMAIN u /\ u[i - 1] = Required(f)
    BY <1>1 DEF Paired, u
  <1>2. CASE i \in 1 .. Len(s)
    BY <1>1, <1>2 DEF Paired
  <1>3. CASE i \notin 1 .. Len(s)
    <2> DEFINE k == i - Len(s)
    <2>1. k \in 1 .. Len(t) /\ i = Len(s) + k /\ u[i] = t[k]
      BY <1>1, <1>3
    <2>2. /\ k + 1 \in DOMAIN t => i + 1 \in DOMAIN u /\ u[i + 1] = t[k + 1]
          /\ k - 1 \in DOMAIN t => i - 1 \in DOMAIN u /\ u[i - 1] = t[k - 1]
      <3>0. i \in Int /\ Len(s) \in Int
        BY <1>1
      <3>1. i + 1 = Len(s) + (k + 1) /\ i - 1 = Len(s) + (k - 1) /\ k \in Int
        BY <3>0
      <3> HIDE DEF k
      <3>2. k + 1 \in DOMAIN t => u[Len(s) + (k + 1)] = t[k + 1] /\ Len(s) + (k + 1) \in DOMAIN u
        BY <3>1, <1>1
      <3>3. k - 1 \in DOMAIN t => u[Len(s) + (k - 1)] = t[k - 1] /\ Len(s) + (k - 1) \in DOMAIN u
        BY <3>1, <1>1
      <3> QED BY <3>1, <3>2, <3>3
    <2> HIDE DEF k
    <2>3. k \in DOMAIN t
      BY <1>1, <2>1
    <2> QED BY <2>1, <2>2, <2>3 DEF Paired
  <1> QED BY <1>2, <1>3

In(x, s) == \E i \in DOMAIN s : s[i] = x

LEMMA ConcatIn ==
    ASSUME NEW T, NEW s \in Seq(T), NEW t \in Seq(T)
    PROVE  /\ s \o t \in Seq(T)
           /\ Len(s \o t) = Len(s) + Len(t)
           /\ \A i \in 1 .. Len(s) : i \in DOMAIN (s \o t) /\ (s \o t)[i] = s[i]
           /\ \A i \in DOMAIN (s \o t) : i > Len(s) => In((s \o t)[i], t)
           /\ \A x : In(x, s \o t) <=> In(x, s) \/ In(x, t)
  <1> DEFINE u == s \o t
  <1>1. /\ u \in Seq(T) /\ Len(u) = Len(s) + Len(t)
        /\ DOMAIN u = 1 .. Len(s) + Len(t)
        /\ \A i \in 1 .. Len(s) : u[i] = s[i]
        /\ \A i \in 1 .. Len(t) : u[Len(s) + i] = t[i]
        /\ Len(s) \in Nat /\ Len(t) \in Nat /\ DOMAIN s = 1 .. Len(s) /\ DOMAIN t = 1 .. Len(t)
    OBVIOUS
  <1> HIDE DEF u
  <1>2. \A i \in 1 .. Len(s) : i \in DOMAIN u /\ u[i] = s[i]
    BY <1>1
  <1>3. \A i \in DOMAIN u : i > Len(s) => i - Len(s) \in DOMAIN t /\ u[i] = t[i - Len(s)]
    <2> SUFFICES ASSUME NEW i \in DOMAIN u, i > Len(s)
                 PROVE  i - Len(s) \in DOMAIN t /\ u[i] = t[i - Len(s)]
      OBVIOUS
    <2>1. i - Len(s) \in 1 .. Len(t) /\ Len(s) + (i - Len(s)) = i
      BY <1>1
    <2> QED BY <2>1, <1>1
  <1>4. \A x : In(x, t) => In(x, u)
    <2> SUFFICES ASSUME NEW x, NEW i \in DOMAIN t, t[i] = x
                 PROVE  In(x, u)
      BY DEF In
    <2>1. Len(s) + i \in DOMAIN u /\ u[Len(s) + i] = x
      BY <1>1
    <2> QED BY <2>1 DEF In
  <1>5. \A x : In(x, s) => In(x, u)
    BY <1>1, <1>2 DEF In
  <1>6. \A x : In(x, u) => In(x, s) \/ In(x, t)
    <2> SUFFICES ASSUME NEW x, NEW i \in DOMAIN u, u[i] = x
                 PROVE  In(x, s) \/ In(x, t)
      BY DEF In
    <2>1. CASE i > Len(s)
      BY <2>1, <1>3 DEF In
    <2>2. CASE ~(i > Len(s))
      <3>1. i \in 1 .. Len(s)
        BY <2>2, <1>1
      <3> QED BY <3>1, <1>1 DEF In
    <2> QED BY <2>1, <2>2
  <1>7. \A i \in DOMAIN u : i > Len(s) => In(u[i], t)
    BY <1>3 DEF In
  <1> QED BY <1>1, <1>2, <1>4, <1>5, <1>6, <1>7 DEF u

Thresholds == {"positive_threshold_mm", "negative_threshold_mm"}
Budget == "measurement_error_budget_mm"

\* Checks looks after every field, and compares a threshold with the budget
\* after both have been found to be as they must.
LEMMA ChecksComplete ==
    /\ Checks \in Seq(Triple)
    /\ Paired(Checks)
    /\ \A f \in Fields : In(Required(f), Checks) /\ In(Ruled(f), Checks)
    /\ \A f \in Thresholds : In(Exceeds(f), Checks)
    /\ \A i \in DOMAIN Checks :
         Checks[i][2] = "budget" =>
            /\ Checks[i][1] \in Thresholds
            /\ \A f \in Thresholds \union {Budget} :
                 \E j \in DOMAIN Checks : j < i /\ Checks[j] = Ruled(f)
  <1> DEFINE A == Each(HeadFields)
             C == Each(SettingFields)
             E == Each(ExecutionFields)
             Q == A \o UnitChecks \o C
  <1>1. HeadFields \in Seq(Fields) /\ SettingFields \in Seq(Fields) /\ ExecutionFields \in Seq(Fields)
    BY DEF HeadFields, SettingFields, ExecutionFields, Fields, Sections, FieldsOf
  <1>2. UnitChecks \in Seq(Triple) /\ Paired(UnitChecks) /\ \A i \in DOMAIN UnitChecks : UnitChecks[i][2] # "budget"
    <2>1. {"reference_unit", "scan_unit"} \subseteq Fields
      BY DEF Fields, Sections, FieldsOf
    <2>2. Kind["reference_unit"] = "unit" /\ Kind["scan_unit"] = "unit"
      BY <2>1, KindOfSpecial DEF Special
    <2>3. \A i \in DOMAIN UnitChecks : UnitChecks[i][1] \in {"reference_unit", "scan_unit"} /\ UnitChecks[i][2] # "budget"
      BY DEF UnitChecks, Required, Ruled
    <2>4. Paired(UnitChecks)
      BY <2>2, <2>3 DEF Paired, Doubles, Required, Ruled
    <2>5. UnitChecks \in Seq(Triple)
      BY <2>1 DEF UnitChecks, Triple, Required, Ruled
    <2> QED BY <2>3, <2>4, <2>5
  <1>3. /\ BudgetChecks \in Seq(Triple) /\ Paired(BudgetChecks)
        /\ \A i \in DOMAIN BudgetChecks : BudgetChecks[i][1] \in Thresholds /\ BudgetChecks[i][2] = "budget"
        /\ \A f \in Thresholds : In(Exceeds(f), BudgetChecks)
    <2>1. /\ Len(BudgetChecks) = 2 /\ DOMAIN BudgetChecks = 1 .. 2
          /\ BudgetChecks[1] = Exceeds("positive_threshold_mm")
          /\ BudgetChecks[2] = Exceeds("negative_threshold_mm")
      BY DEF BudgetChecks
    <2>2. \A i \in DOMAIN BudgetChecks : BudgetChecks[i][1] \in Thresholds /\ BudgetChecks[i][2] = "budget"
      BY DEF BudgetChecks, Exceeds, Thresholds
    <2>3. BudgetChecks \in Seq(Triple)
      BY KindsUsed DEF BudgetChecks, Exceeds, Triple, PositiveFields
    <2>4. Paired(BudgetChecks)
      BY <2>2 DEF Paired, Required, Ruled
    <2>5. \A f \in Thresholds : In(Exceeds(f), BudgetChecks)
      BY <2>1 DEF In, Thresholds
    <2> QED BY <2>2, <2>3, <2>4, <2>5
  <1>4. /\ A \in Seq(Triple) /\ Paired(A) /\ \A i \in DOMAIN A : A[i][2] # "budget"
        /\ C \in Seq(Triple) /\ Paired(C) /\ \A i \in DOMAIN C : C[i][2] # "budget"
        /\ E \in Seq(Triple) /\ Paired(E) /\ \A i \in DOMAIN E : E[i][2] # "budget"
    BY <1>1, EachPaired
  <1>5. /\ \A f \in Fields : In(f, HeadFields) => In(Required(f), A) /\ In(Ruled(f), A)
        /\ \A f \in Fields : In(f, SettingFields) => In(Required(f), C) /\ In(Ruled(f), C)
        /\ \A f \in Fields : In(f, ExecutionFields) => In(Required(f), E) /\ In(Ruled(f), E)
    <2>1. ASSUME NEW F \in Seq(Fields), NEW f, In(f, F)
          PROVE  In(Required(f), Each(F)) /\ In(Ruled(f), Each(F))
      <3>1. PICK i \in 1 .. Len(F) : F[i] = f
        BY <2>1 DEF In
      <3> QED BY <3>1, EachPaired DEF In
    <2> QED BY <1>1, <2>1
  <1> HIDE DEF A, C, E
  <1>6. /\ Q \in Seq(Triple) /\ Paired(Q)
        /\ \A x : In(x, Q) <=> In(x, A) \/ In(x, UnitChecks) \/ In(x, C)
    <2> DEFINE P == A \o UnitChecks
    <2>1. P \in Seq(Triple) /\ Paired(P) /\ \A x : In(x, P) <=> In(x, A) \/ In(x, UnitChecks)
      BY <1>2, <1>4, ConcatPaired, ConcatIn
    <2> HIDE DEF P
    <2>2. P \o C \in Seq(Triple) /\ Paired(P \o C) /\ \A x : In(x, P \o C) <=> In(x, P) \/ In(x, C)
      BY <1>4, <2>1, ConcatPaired, ConcatIn
    <2> QED BY <2>1, <2>2 DEF P
  <1>7. \A i \in DOMAIN Q : Q[i][2] # "budget"
    <2>1. \A i \in DOMAIN Q : In(Q[i], A) \/ In(Q[i], UnitChecks) \/ In(Q[i], C)
      BY <1>6 DEF In
    <2> QED BY <2>1, <1>2, <1>4 DEF In
  <1> HIDE DEF Q
  <1>8. Checks = Q \o BudgetChecks \o E
    BY DEF Checks, Q, A, C, E
  <1>9. Checks \in Seq(Triple) /\ Paired(Checks)
    BY <1>3, <1>4, <1>6, <1>8, ConcatPaired
  <1>10. \A x : In(x, Checks) <=> In(x, Q) \/ In(x, BudgetChecks) \/ In(x, E)
    <2> DEFINE P == Q \o BudgetChecks
    <2>1. P \in Seq(Triple) /\ \A x : In(x, P) <=> In(x, Q) \/ In(x, BudgetChecks)
      BY <1>3, <1>6, ConcatIn
    <2> HIDE DEF P
    <2>2. \A x : In(x, P \o E) <=> In(x, P) \/ In(x, E)
      BY <1>4, <2>1, ConcatIn
    <2> QED BY <2>1, <2>2, <1>8 DEF P
  <1>11. \A f \in Fields : \/ In(f, HeadFields)
                           \/ f \in {"reference_unit", "scan_unit"}
                           \/ In(f, SettingFields)
                           \/ In(f, ExecutionFields)
    BY DEF In, HeadFields, SettingFields, ExecutionFields, Fields, Sections, FieldsOf
  <1>12. \A f \in {"reference_unit", "scan_unit"} : In(Required(f), UnitChecks) /\ In(Ruled(f), UnitChecks)
    <2>1. /\ DOMAIN UnitChecks = 1 .. 4
          /\ UnitChecks[1] = Required("reference_unit") /\ UnitChecks[2] = Required("scan_unit")
          /\ UnitChecks[3] = Ruled("reference_unit") /\ UnitChecks[4] = Ruled("scan_unit")
      BY DEF UnitChecks
    <2> QED BY <2>1 DEF In
  <1>13. \A f \in Fields : In(Required(f), Checks) /\ In(Ruled(f), Checks)
    BY <1>5, <1>6, <1>10, <1>11, <1>12
  <1>14. \A f \in Thresholds : In(Exceeds(f), Checks)
    BY <1>3, <1>10
  <1>15. ASSUME NEW i \in DOMAIN Checks, Checks[i][2] = "budget"
         PROVE  /\ Checks[i][1] \in Thresholds
                /\ \A f \in Thresholds \union {Budget} :
                     \E j \in DOMAIN Checks : j < i /\ Checks[j] = Ruled(f)
    <2>1. Q \o BudgetChecks \in Seq(Triple)
      BY <1>3, <1>6, ConcatIn
    <2>2. /\ \A j \in 1 .. Len(Q) : j \in DOMAIN Checks /\ Checks[j] = Q[j]
          /\ Len(Q) \in Nat /\ DOMAIN Q = 1 .. Len(Q)
          /\ i \in Nat /\ i >= 1
      <3>1. \A j \in 1 .. Len(Q) : j \in DOMAIN (Q \o BudgetChecks) /\ (Q \o BudgetChecks)[j] = Q[j]
        BY <1>3, <1>6, ConcatIn
      <3>2. \A j \in 1 .. Len(Q \o BudgetChecks) : j \in DOMAIN Checks /\ Checks[j] = (Q \o BudgetChecks)[j]
        BY <1>4, <1>8, <2>1, ConcatIn
      <3>3. DOMAIN (Q \o BudgetChecks) = 1 .. Len(Q \o BudgetChecks) /\ Len(Q) \in Nat /\ DOMAIN Q = 1 .. Len(Q)
        BY <2>1, <1>6
      <3>4. i \in Nat /\ i >= 1
        BY <1>9
      <3> QED BY <3>1, <3>2, <3>3, <3>4
    <2>3. i > Len(Q)
      BY <2>2, <1>7, <1>15
    <2>4. Checks[i][1] \in Thresholds
      <3>1. In(Checks[i], Q) \/ In(Checks[i], BudgetChecks) \/ In(Checks[i], E)
        BY <1>10 DEF In
      <3> QED BY <3>1, <1>3, <1>4, <1>7, <1>15 DEF In
    <2>5. \A f \in Thresholds \union {Budget} : In(Ruled(f), Q)
      <3>1. \A f \in Thresholds \union {Budget} : f \in Fields
        BY KindsUsed DEF Thresholds, Budget, PositiveFields
      <3>2. \A f \in Thresholds \union {Budget} : In(f, SettingFields)
        BY DEF In, SettingFields, Thresholds, Budget
      <3> QED BY <3>1, <3>2, <1>5, <1>6
    <2>6. ASSUME NEW f \in Thresholds \union {Budget}
          PROVE  \E j \in DOMAIN Checks : j < i /\ Checks[j] = Ruled(f)
      <3>1. PICK j \in 1 .. Len(Q) : Q[j] = Ruled(f)
        BY <2>2, <2>5 DEF In
      <3>2. j < i
        BY <2>2, <2>3
      <3> QED BY <3>1, <3>2, <2>2
    <2> QED BY <2>4, <2>6
  <1> QED BY <1>9, <1>13, <1>14, <1>15

-----------------------------------------------------------------------------
(***************************************************************************)
(* What validate_config finds                                              *)
(***************************************************************************)
LEMMA LeastOfNaturals ==
    ASSUME NEW T \in SUBSET Nat, T # {}
    PROVE  Min(T) \in T /\ \A y \in T : Min(T) <= y
  <1>1. \E x \in T : \A y \in T : ~(<<y, x>> \in OpToRel(<, Nat))
    BY WFMin, NatLessThanWellFounded
  <1>2. PICK x \in T : \A y \in T : ~(<<y, x>> \in OpToRel(<, Nat))
    BY <1>1
  <1>3. ASSUME NEW y \in T
        PROVE  x <= y
    <2>1. ~(y < x)
      BY <1>2 DEF OpToRel
    <2> QED BY <2>1
  <1> QED BY <1>3 DEF Min

LEMMA FirstFound ==
    ASSUME NEW c
    PROVE  /\ (validate_config(c) = {}) <=> (\A i \in DOMAIN Checks : ~Broken(c, Checks[i]))
           /\ validate_config(c) # {} =>
                \E i \in DOMAIN Checks : /\ Broken(c, Checks[i])
                                         /\ \A j \in DOMAIN Checks : j < i => ~Broken(c, Checks[j])
                                         /\ validate_config(c) = {Checks[i]}
  <1> DEFINE broken == {i \in DOMAIN Checks : Broken(c, Checks[i])}
  <1>1. validate_config(c) = IF broken = {} THEN {} ELSE {Checks[Min(broken)]}
    BY DEF validate_config
  <1>2. DOMAIN Checks \subseteq Nat
    BY ChecksComplete
  <1>3. broken # {} => Min(broken) \in broken /\ \A y \in broken : Min(broken) <= y
    BY <1>2, LeastOfNaturals
  <1>4. ASSUME broken # {}, NEW j \in DOMAIN Checks, j < Min(broken)
        PROVE  ~Broken(c, Checks[j])
    BY <1>2, <1>3, <1>4
  <1>5. (validate_config(c) = {}) <=> (broken = {})
    BY <1>1
  <1> QED BY <1>1, <1>3, <1>4, <1>5

\* Where a check is broken at all, the field it names is told.
LEMMA AcceptedFields ==
    ASSUME NEW c, validate_config(c) = {}
    PROVE  /\ \A f \in Fields : c[f] # {} /\ \A v \in c[f] : Rule(Kind[f], v)
           /\ \A f \in Thresholds : \A v \in c[f], b \in c[Budget] : ~(Magnitude(v) <= b)
  <1>1. \A x : In(x, Checks) => ~Broken(c, x)
    BY FirstFound DEF In
  <1>2. ASSUME NEW f \in Fields
        PROVE  c[f] # {} /\ \A v \in c[f] : Rule(Kind[f], v)
    <2>1. ~Broken(c, Required(f)) /\ ~Broken(c, Ruled(f))
      BY <1>1, ChecksComplete
    <2> QED BY <2>1 DEF Broken, Required, Ruled
  <1>3. ASSUME NEW f \in Thresholds
        PROVE  \A v \in c[f], b \in c[Budget] : ~(Magnitude(v) <= b)
    <2>1. ~Broken(c, Exceeds(f))
      BY <1>1, ChecksComplete
    <2> QED BY <2>1 DEF Broken, Exceeds, Budget
  <1> QED BY <1>2, <1>3

-----------------------------------------------------------------------------
(***************************************************************************)
(* Configurations and documents                                            *)
(***************************************************************************)
IsConfig(c) == /\ c = [f \in Fields |-> c[f]]
               /\ \A f \in Fields : IsOptional(Kind[f], c[f])
IsDocument(d) == /\ d \in [sections : [Sections -> {"object", "absent", "scalar"}],
                           fields : [Fields -> {d.fields[f] : f \in Fields}]]
                 /\ \A f \in Fields : IsJson(d.fields[f])

Kinds == {"schema", "profile", "unit", "frame", "neighbors", "iterations", "count", "ratio",
          "rotation", "angle", "nonnegative", "negative", "flag", "seed", "method", "backend",
          "positive"}

LEMMA KindsListed ==
    ASSUME NEW f \in Fields
    PROVE  Kind[f] \in Kinds
  <1>1. DOMAIN Special \subseteq Kinds /\ "positive" \in Kinds
    BY DEF Special, Kinds
  <1> QED BY <1>1, KindIsSpecial

\* An optional is unset or has one value.
LEMMA OptionalCases ==
    ASSUME NEW k \in Kinds, NEW x, IsOptional(k, x)
    PROVE  x = {} \/ \E v : IsValue(k, v) /\ x = {v}
  BY DEF IsOptional

LEMMA TheOne ==
    /\ \A default : The({}, default) = default
    /\ \A v, default : The({v}, default) = v
  BY DEF The

\* One field of what serialize_config writes, by the type of the field.
Written(k, x) ==
    CASE k \in {"schema", "profile", "frame"} -> <<"string", The(x, "")>>
      [] k = "unit" -> <<"string", IF x = {} THEN "" ELSE unit_to_string(The(x, ""))>>
      [] k = "method" -> <<"string", IF x \subseteq Methods THEN The(x, "") ELSE "unknown">>
      [] k = "backend" -> <<"string", IF x \subseteq Backends THEN The(x, "") ELSE "unknown">>
      [] k = "flag" -> IF x = {} THEN Null ELSE <<"boolean", The(x, FALSE)>>
      [] OTHER -> optional_number(x)

LEMMA WrittenFields ==
    ASSUME NEW c, NEW f \in Fields
    PROVE  /\ config_to_json(c).fields[f] = Written(Kind[f], c[f])
           /\ config_to_json(c).sections[SectionOf[f]] = "object"
  <1>1. config_to_json(c).fields[f] = Written(Kind[f], c[f])
    BY DEF config_to_json, Written
  <1>2. \E s \in Sections : f \in FieldsOf[s]
    BY DEF Fields
  <1>3. SectionOf[f] \in Sections
    BY <1>2 DEF SectionOf
  <1>4. config_to_json(c).sections[SectionOf[f]] = "object"
    BY <1>3 DEF config_to_json
  <1> QED BY <1>1, <1>4

Texts == {"schema", "profile", "frame", "unit", "method", "backend"}

\* The definitions by cases, one kind of field at a time.
LEMMA ValuesByKind ==
    ASSUME NEW v
    PROVE  /\ \A k \in Texts : IsValue(k, v) <=> v # ""
           /\ IsValue("flag", v) <=> v \in BOOLEAN
           /\ IsValue("seed", v) <=> v \in 0 .. UInt64Modulus - 1
           /\ \A k \in UInts : IsValue(k, v) <=> v \in 0 .. UInt32Modulus - 1
           /\ \A k \in Doubles : IsValue(k, v) <=> v \in Int
  BY DEF IsValue, Texts, UInts, Doubles

LEMMA KindClasses ==
    ASSUME NEW k \in Kinds
    PROVE  k \in Texts \/ k = "flag" \/ k = "seed" \/ k \in UInts \/ k \in Doubles
  BY DEF Kinds, Texts, UInts, Doubles

LEMMA WrittenByKind ==
    ASSUME NEW x
    PROVE  /\ \A k \in {"schema", "profile", "frame"} : Written(k, x) = <<"string", The(x, "")>>
           /\ Written("unit", x) = <<"string", IF x = {} THEN "" ELSE unit_to_string(The(x, ""))>>
           /\ Written("method", x) = <<"string", IF x \subseteq Methods THEN The(x, "") ELSE "unknown">>
           /\ Written("backend", x) = <<"string", IF x \subseteq Backends THEN The(x, "") ELSE "unknown">>
           /\ Written("flag", x) = IF x = {} THEN Null ELSE <<"boolean", The(x, FALSE)>>
           /\ Written("seed", x) = optional_number(x)
           /\ \A k \in UInts \union Doubles : Written(k, x) = optional_number(x)
  BY DEF Written, UInts, Doubles

LEMMA ValueByKind ==
    ASSUME NEW d, NEW f \in Fields
    PROVE  /\ Kind[f] = "method" => Value(d, f) = IF ~Present(d, f) THEN {"point_to_plane"}
                                                  ELSE IF Given(d, f) THEN {d.fields[f][2]} ELSE {}
           /\ Kind[f] = "backend" => Value(d, f) = IF ~Present(d, f) THEN {"cpu"}
                                                   ELSE IF Given(d, f) THEN {d.fields[f][2]} ELSE {}
           /\ Kind[f] = "flag" => Value(d, f) = optional_bool(d, f)
           /\ Kind[f] = "profile" => Value(d, f) = IF Given(d, f) THEN {d.fields[f][2]} \ {""} ELSE {}
           /\ Kind[f] \in UInts => Value(d, f) =
                IF Given(d, f)
                THEN IF d.fields[f][1] = "boolean" THEN {IF d.fields[f][2] THEN 1 ELSE 0}
                     ELSE {d.fields[f][2] % UInt32Modulus}
                ELSE {}
           /\ Kind[f] = "seed" => Value(d, f) = IF Given(d, f) THEN {d.fields[f][2] % UInt64Modulus} ELSE {}
           /\ Kind[f] \in {"schema", "unit", "frame"} \union Doubles =>
                Value(d, f) = IF Given(d, f) THEN {d.fields[f][2]} ELSE {}
  <1> DEFINE j == d.fields[f]
  <1>1. Kind[f] = "method" => Value(d, f) = IF ~Present(d, f) THEN {"point_to_plane"}
                                            ELSE IF Given(d, f) THEN {d.fields[f][2]} ELSE {}
    BY DEF Value, UInts
  <1>2. Kind[f] = "backend" => Value(d, f) = IF ~Present(d, f) THEN {"cpu"}
                                            ELSE IF Given(d, f) THEN {d.fields[f][2]} ELSE {}
    BY DEF Value, UInts
  <1>3. Kind[f] = "flag" => Value(d, f) = optional_bool(d, f)
    BY DEF Value, UInts
  <1>4. Kind[f] = "profile" => Value(d, f) = IF Given(d, f) THEN {d.fields[f][2]} \ {""} ELSE {}
    BY DEF Value, UInts
  <1>5. Kind[f] \in UInts => Value(d, f) =
                IF Given(d, f)
                THEN IF d.fields[f][1] = "boolean" THEN {IF d.fields[f][2] THEN 1 ELSE 0}
                     ELSE {d.fields[f][2] % UInt32Modulus}
                ELSE {}
    BY DEF Value, UInts
  <1>6. Kind[f] = "seed" => Value(d, f) = IF Given(d, f) THEN {d.fields[f][2] % UInt64Modulus} ELSE {}
    BY DEF Value, UInts
  <1>7. Kind[f] \in {"schema", "unit", "frame"} \union Doubles =>
                Value(d, f) = IF Given(d, f) THEN {d.fields[f][2]} ELSE {}
    BY DEF Value, UInts, Doubles
  <1> QED BY <1>1, <1>2, <1>3, <1>4, <1>5, <1>6, <1>7

LEMMA WrongByKind ==
    ASSUME NEW d, NEW f \in Fields
    PROVE  LET j == d.fields[f]
           IN  /\ Kind[f] = "schema" => (WrongValue(d, f) <=> ~Present(d, f) \/ ~IsString(j, {"1.0"}))
               /\ Kind[f] = "profile" => (WrongValue(d, f) <=> Present(d, f) /\ j[1] # "string")
               /\ Kind[f] = "method" => (WrongValue(d, f) <=> Present(d, f) /\ ~IsString(j, Methods))
               /\ Kind[f] = "backend" => (WrongValue(d, f) <=> Present(d, f) /\ ~IsString(j, Backends))
               /\ Kind[f] = "unit" => (WrongValue(d, f) <=> Given(d, f) /\ ~IsString(j, Units))
               /\ Kind[f] = "frame" => (WrongValue(d, f) <=> Given(d, f) /\ (j[1] # "string" \/ j[2] = ""))
               /\ Kind[f] = "flag" => (WrongValue(d, f) <=> Given(d, f) /\ j[1] # "boolean")
               /\ Kind[f] \in UInts => (WrongValue(d, f) <=> Given(d, f) /\ j[1] \notin {"number", "boolean"})
               /\ Kind[f] \in {"seed"} \union Doubles => (WrongValue(d, f) <=> Given(d, f) /\ j[1] # "number")
  BY DEF WrongValue, UInts, Doubles

LEMMA WrittenJson ==
    ASSUME NEW k \in Kinds, NEW x, IsOptional(k, x)
    PROVE  IsJson(Written(k, x)) /\ Written(k, x) # Absent
  <1>0. /\ \A v : IsJson(<<"string", v>>) /\ <<"string", v>> # Absent
        /\ \A v \in BOOLEAN : IsJson(<<"boolean", v>>) /\ <<"boolean", v>> # Absent
        /\ \A v \in Int : IsJson(<<"number", v>>) /\ <<"number", v>> # Absent
        /\ IsJson(Null) /\ Null # Absent
    BY DEF IsJson, Null, Absent
  <1>1. CASE k \in Texts
    <2>1. \E v : Written(k, x) = <<"string", v>>
      BY <1>1, WrittenByKind DEF Texts
    <2> QED BY <1>0, <2>1
  <1>2. CASE k = "flag"
    <2>1. x # {} => The(x, FALSE) \in BOOLEAN
      <3>1. SUFFICES ASSUME NEW v, x = {v}, IsValue(k, v) PROVE The(x, FALSE) \in BOOLEAN
        BY OptionalCases
      <3>2. The(x, FALSE) = v /\ v \in BOOLEAN
        BY <1>2, <3>1, TheOne, ValuesByKind
      <3> QED BY <3>2
    <2>2. Written(k, x) = Null \/ (x # {} /\ Written(k, x) = <<"boolean", The(x, FALSE)>>)
      BY <1>2, WrittenByKind
    <2> QED BY <1>0, <2>1, <2>2
  <1>3. CASE k = "seed" \/ k \in UInts \/ k \in Doubles
    <2>1. \A v : IsValue(k, v) => v \in Int
      <3>1. 0 .. UInt64Modulus - 1 \subseteq Int /\ 0 .. UInt32Modulus - 1 \subseteq Int
        OBVIOUS
      <3> QED BY <1>3, <3>1, ValuesByKind
    <2>2. The(x, 0) \in Int
      <3>1. CASE x = {}
        BY <3>1, TheOne
      <3>2. ASSUME NEW v, IsValue(k, v), x = {v}
            PROVE  The(x, 0) \in Int
        BY <2>1, <3>2, TheOne
      <3> QED BY <3>1, <3>2, OptionalCases
    <2>3. Written(k, x) = Null \/ Written(k, x) = <<"number", The(x, 0)>>
      BY <1>3, WrittenByKind DEF optional_number
    <2> QED BY <1>0, <2>2, <2>3
  <1> QED BY <1>1, <1>2, <1>3, KindClasses

LEMMA JsonCases ==
    ASSUME NEW j, IsJson(j)
    PROVE  /\ j[1] = "number" => j[2] \in Int
           /\ j[1] = "boolean" => j[2] \in BOOLEAN
  BY DEF IsJson

\* A field of a document that get<T> reads is of its type.
LEMMA ValueTyped ==
    ASSUME NEW d, IsDocument(d), NEW f \in Fields, ~WrongValue(d, f)
    PROVE  IsOptional(Kind[f], Value(d, f))
  <1> DEFINE k == Kind[f]
             j == d.fields[f]
  <1>1. k \in Kinds /\ IsJson(j)
    BY KindsListed DEF IsDocument
  <1>2. /\ j[1] = "number" => j[2] \in Int
        /\ j[1] = "boolean" => j[2] \in BOOLEAN
    BY <1>1, JsonCases
  <1> SUFFICES Value(d, f) = {} \/ \E v : Value(d, f) = {v} /\ IsValue(k, v)
    BY DEF IsOptional
  <1>3. CASE k \in Texts
    <2>1. "point_to_plane" # "" /\ "cpu" # "" /\ "1.0" # "" /\ "" \notin Methods \union Backends \union Units
      BY DEF Methods, Backends, Units
    <2> HIDE DEF j
    <2>2. Value(d, f) = {} \/ \E v : Value(d, f) = {v} /\ v # ""
      <3>1. CASE k = "schema"
        BY <2>1, <3>1, ValueByKind, WrongByKind DEF IsString
      <3>2. CASE k = "profile"
        BY <3>2, ValueByKind
      <3>3. CASE k = "frame"
        BY <3>3, ValueByKind, WrongByKind
      <3>4. CASE k = "unit"
        BY <2>1, <3>4, ValueByKind, WrongByKind DEF IsString
      <3>5. CASE k = "method"
        BY <2>1, <3>5, ValueByKind, WrongByKind DEF IsString
      <3>6. CASE k = "backend"
        BY <2>1, <3>6, ValueByKind, WrongByKind DEF IsString
      <3> QED BY <1>3, <3>1, <3>2, <3>3, <3>4, <3>5, <3>6 DEF Texts
    <2> QED BY <1>3, <2>2, ValuesByKind
  <1>4. CASE k = "flag"
    <2>1. Value(d, f) = {} \/ (Value(d, f) = {j[2]} /\ j[2] \in BOOLEAN)
      BY <1>2, <1>4, ValueByKind, WrongByKind DEF optional_bool
    <2> QED BY <1>4, <2>1, ValuesByKind
  <1>5. CASE k \in UInts
    <2>1. Given(d, f) => j[1] \in {"number", "boolean"}
      BY <1>5, WrongByKind
    <2>2. \A v \in Int : v % UInt32Modulus \in 0 .. UInt32Modulus - 1
      BY ConfigAssumption
    <2>3. {0, 1} \subseteq 0 .. UInt32Modulus - 1
      BY ConfigAssumption
    <2>4. CASE Given(d, f) /\ j[1] = "boolean"
      <3>1. Value(d, f) = {IF j[2] THEN 1 ELSE 0}
        BY <1>5, <2>4, ValueByKind
      <3>2. (IF j[2] THEN 1 ELSE 0) \in 0 .. UInt32Modulus - 1
        BY <2>3
      <3> QED BY <3>1, <3>2, <1>5, ValuesByKind
    <2>5. CASE Given(d, f) /\ j[1] = "number"
      <3>1. Value(d, f) = {j[2] % UInt32Modulus}
        BY <1>5, <2>5, ValueByKind
      <3>2. j[2] % UInt32Modulus \in 0 .. UInt32Modulus - 1
        BY <1>2, <2>2, <2>5
      <3> QED BY <3>1, <3>2, <1>5, ValuesByKind
    <2>6. CASE ~Given(d, f)
      BY <1>5, <2>6, ValueByKind
    <2> QED BY <2>1, <2>4, <2>5, <2>6
  <1>6. CASE k = "seed"
    <2>1. \A v \in Int : v % UInt64Modulus \in 0 .. UInt64Modulus - 1
      BY ConfigAssumption
    <2>2. Value(d, f) = {} \/ (Value(d, f) = {j[2] % UInt64Modulus} /\ j[2] \in Int)
      BY <1>2, <1>6, ValueByKind, WrongByKind
    <2> QED BY <1>6, <2>1, <2>2, ValuesByKind
  <1>7. CASE k \in Doubles
    <2>1. Value(d, f) = {} \/ (Value(d, f) = {j[2]} /\ j[2] \in Int)
      BY <1>2, <1>7, ValueByKind, WrongByKind
    <2> QED BY <1>7, <2>1, ValuesByKind
  <1> QED BY <1>1, <1>3, <1>4, <1>5, <1>6, <1>7, KindClasses

-----------------------------------------------------------------------------
(***************************************************************************)
(* The round trip                                                          *)
(***************************************************************************)
\* Serializing loses only that a number was not finite: it becomes unset.
Lost(c, f) == Kind[f] \in Doubles /\ c[f] = {NonFinite}

\* A field that get<T> accepts comes back as it was, or is lost.
LEMMA FieldComesBack ==
    ASSUME NEW c, IsConfig(c), NEW f \in Fields,
           Kind[f] = "unit" => c[f] \subseteq Units,
           ~WrongValue(config_to_json(c), f)
    PROVE  Value(config_to_json(c), f) = IF Lost(c, f) THEN {} ELSE c[f]
  <1> DEFINE k == Kind[f]
             x == c[f]
             d == config_to_json(c)
             j == d.fields[f]
  <1>1. k \in Kinds /\ IsOptional(k, x)
    BY KindsListed DEF IsConfig
  <1>2. /\ j = Written(k, x) /\ j # Absent
        /\ Present(d, f)
        /\ Given(d, f) <=> j # Null
    BY <1>1, WrittenFields, WrittenJson DEF Present, Given
  <1>3. /\ x = {} => The(x, "") = "" /\ The(x, 0) = 0 /\ The(x, FALSE) = FALSE
        /\ \A v : x = {v} => The(x, "") = v /\ The(x, 0) = v /\ The(x, FALSE) = v
    BY TheOne
  <1>4. x = {} \/ \E v : IsValue(k, v) /\ x = {v}
    BY <1>1, OptionalCases
  <1>5. \A v : <<"string", v>> # Null /\ <<"boolean", v>> # Null /\ <<"number", v>> # Null
    BY DEF Null
  <1>9. /\ k = "schema" => j[2] = "1.0"
        /\ k = "frame" /\ j # Null => j[2] # ""
        /\ k = "unit" /\ j # Null => j[2] \in Units
        /\ k = "method" => j[2] \in Methods
        /\ k = "backend" => j[2] \in Backends
    BY <1>2, WrongByKind DEF IsString
  <1>10. /\ k \in {"schema", "frame", "unit", "method", "backend"} /\ j # Null => Value(d, f) = {j[2]}
         /\ k = "profile" /\ j # Null => Value(d, f) = {j[2]} \ {""}
         /\ k = "seed" /\ j # Null => Value(d, f) = {j[2] % UInt64Modulus}
         /\ k \in UInts /\ j # Null /\ j[1] = "number" => Value(d, f) = {j[2] % UInt32Modulus}
         /\ k \in Doubles /\ j # Null => Value(d, f) = {j[2]}
         /\ (k = "seed" \/ k \in UInts \/ k \in Doubles) /\ j = Null => Value(d, f) = {}
    BY <1>2, ValueByKind
  <1> HIDE DEF k, x, d, j
  <1> SUFFICES Value(d, f) = IF k \in Doubles /\ x = {NonFinite} THEN {} ELSE x
    BY DEF Lost, k, x, d
  <1>6. CASE k \in Texts
    <2>0. \A v : IsValue(k, v) => v # ""
      BY <1>6, ValuesByKind
    <2>1. k \notin Doubles
      BY <1>6 DEF Texts, Doubles
    <2>2. CASE k \in {"schema", "profile", "frame"}
      <3>1. j = <<"string", The(x, "")>>
        BY <1>2, <2>2, WrittenByKind
      <3>2. CASE x = {}
        <4>1. The(x, "") = ""
          BY <3>2, <1>3
        <4>2. k = "profile"
          <5>1. j[2] = "" /\ j # Null
            BY <3>1, <4>1, <1>5
          <5> QED BY <2>2, <5>1, <1>9
        <4>3. Value(d, f) = {""} \ {""}
          BY <3>1, <4>1, <4>2, <1>5, <1>10
        <4> QED BY <4>3, <3>2, <2>1
      <3>3. ASSUME NEW v, IsValue(k, v), x = {v}
            PROVE  Value(d, f) = x
        <4>1. The(x, "") = v /\ v # ""
          BY <3>3, <1>3, <2>0
        <4>2. Value(d, f) = {v} \/ Value(d, f) = {v} \ {""}
          BY <2>2, <3>1, <4>1, <1>5, <1>10
        <4> QED BY <4>1, <4>2, <3>3
      <3> QED BY <1>4, <2>1, <3>2, <3>3
    <2>3. CASE k = "unit"
      <3>1. j = <<"string", IF x = {} THEN "" ELSE unit_to_string(The(x, ""))>>
        BY <1>2, <2>3, WrittenByKind
      <3>2. j # Null
        BY <1>5, <3>1
      <3>3. x # {}
        BY <2>3, <3>1, <3>2, <1>9 DEF Units
      <3>4. PICK v : x = {v}
        BY <1>4, <3>3
      <3>5. v \in Units
        BY <2>3, <3>4 DEF k, x
      <3>6. j[2] = v
        BY <1>3, <3>1, <3>3, <3>4, <3>5 DEF unit_to_string
      <3> QED BY <2>1, <2>3, <3>2, <3>4, <3>6, <1>10
    <2>4. CASE k \in {"method", "backend"}
      <3> DEFINE M == IF k = "method" THEN Methods ELSE Backends
      <3>1. j = <<"string", IF x \subseteq M THEN The(x, "") ELSE "unknown">>
        BY <1>2, <2>4, WrittenByKind
      <3>2. j # Null
        BY <1>5, <3>1
      <3>3. j[2] \in M
        BY <2>4, <1>9
      <3>4. "unknown" \notin M /\ "" \notin M
        BY DEF Methods, Backends
      <3>5. The(x, "") \in M /\ j[2] = The(x, "")
        BY <3>1, <3>3, <3>4
      <3>6. x = {The(x, "")}
        BY <1>3, <1>4, <3>4, <3>5
      <3> QED BY <2>1, <2>4, <3>2, <3>5, <3>6, <1>10
    <2> QED BY <1>6, <2>2, <2>3, <2>4 DEF Texts
  <1>7. CASE k = "flag"
    <2>1. k \notin Doubles
      BY <1>7 DEF Doubles
    <2>2. j = IF x = {} THEN Null ELSE <<"boolean", The(x, FALSE)>>
      BY <1>2, <1>7, WrittenByKind
    <2>3. Value(d, f) = IF j = Null THEN {} ELSE {j[2]}
      BY <1>2, <1>7, ValueByKind DEF optional_bool, k, d, j
    <2>4. CASE x = {}
      BY <2>1, <2>2, <2>3, <2>4
    <2>5. ASSUME NEW v, x = {v}
          PROVE  Value(d, f) = x
      <3>1. j = <<"boolean", v>>
        BY <1>3, <2>2, <2>5
      <3> QED BY <2>3, <2>5, <3>1 DEF Null
    <2> QED BY <1>4, <2>1, <2>4, <2>5
  <1>8. CASE k = "seed" \/ k \in UInts \/ k \in Doubles
    <2>1. j = IF x \in {{}, {NonFinite}} THEN Null ELSE <<"number", The(x, 0)>>
      BY <1>2, <1>8, WrittenByKind DEF optional_number
    <2>2. CASE j = Null
      <3>1. Value(d, f) = {}
        BY <1>8, <2>2, <1>10
      <3>2. x \in {{}, {NonFinite}}
        BY <2>1, <2>2 DEF Null
      <3>3. x = {NonFinite} => k \in Doubles
        <4>1. ~(NonFinite \in 0 .. UInt64Modulus - 1) /\ ~(NonFinite \in 0 .. UInt32Modulus - 1)
          BY ConfigAssumption
        <4>2. x = {NonFinite} => IsValue(k, NonFinite)
          BY <1>4
        <4> QED BY <1>8, <4>1, <4>2, ValuesByKind
      <3> QED BY <3>1, <3>2, <3>3
    <2>3. CASE j # Null
      <3>1. x \notin {{}, {NonFinite}} /\ j = <<"number", The(x, 0)>>
        BY <2>1, <2>3
      <3>2. PICK v : IsValue(k, v) /\ x = {v}
        BY <1>4, <3>1
      <3>3. j[1] = "number" /\ j[2] = v
        <4>1. The(x, 0) = v
          BY <1>3, <3>2
        <4> QED BY <3>1, <4>1
      <3>4. /\ \A u \in 0 .. UInt32Modulus - 1 : u % UInt32Modulus = u
            /\ \A u \in 0 .. UInt64Modulus - 1 : u % UInt64Modulus = u
        BY ConfigAssumption
      <3>5. CASE k = "seed"
        <4>1. v % UInt64Modulus = v
          BY <3>2, <3>4, <3>5, ValuesByKind
        <4> QED BY <2>3, <3>1, <3>2, <3>3, <3>5, <4>1, <1>10
      <3>6. CASE k \in UInts
        <4>1. v % UInt32Modulus = v
          BY <3>2, <3>4, <3>6, ValuesByKind
        <4> QED BY <2>3, <3>1, <3>2, <3>3, <3>6, <4>1, <1>10
      <3>7. CASE k \in Doubles
        BY <2>3, <3>1, <3>2, <3>3, <3>7, <1>10
      <3> QED BY <1>8, <3>5, <3>6, <3>7
    <2> QED BY <2>2, <2>3
  <1> QED BY <1>1, <1>6, <1>7, <1>8, KindClasses

BackAgain(c) == [f \in Fields |-> IF Lost(c, f) THEN {} ELSE c[f]]

\* NonFinite satisfies no rule.
LEMMA NonFiniteBreaks ==
    ASSUME NEW k \in Doubles
    PROVE  ~Rule(k, NonFinite)
  <1>1. NonFinite \notin 0 .. 1 /\ NonFinite \notin 0 .. 90 /\ NonFinite \notin 1 .. 180
    BY ConfigAssumption
  <1> QED BY <1>1 DEF Rule, Doubles

\* A valid configuration is read back as it was.
LEMMA ValidComesBack ==
    ASSUME NEW c, IsConfig(c), validate_config(c) = {}
    PROVE  parse_config(config_to_json(c)) = {c}
  <1> DEFINE d == config_to_json(c)
  <1>1. \A f \in Fields : c[f] # {} /\ \A v \in c[f] : Rule(Kind[f], v)
    BY AcceptedFields
  <1>2. ~WrongShape(d)
    <2>1. d.sections = [s \in Sections |-> "object"] /\ {"document", "registration", "execution"} \subseteq Sections
      BY DEF config_to_json, Sections, FieldsOf
    <2>2. d.sections.document = "object" /\ d.sections.registration = "object" /\ d.sections.execution = "object"
      BY <2>1
    <2> HIDE DEF d
    <2> QED BY <2>2 DEF WrongShape
  <1>3. ASSUME NEW f \in Fields
        PROVE  /\ ~WrongValue(d, f)
               /\ ~Lost(c, f)
               /\ Kind[f] = "unit" => c[f] \subseteq Units
    <2> DEFINE k == Kind[f]
               j == d.fields[f]
    <2>1. k \in Kinds /\ IsOptional(k, c[f])
      BY KindsListed DEF IsConfig
    <2>2. PICK v : IsValue(k, v) /\ c[f] = {v}
      BY <1>1, <2>1, OptionalCases
    <2>3. Rule(k, v)
      BY <1>1, <2>2
    <2>4. The(c[f], "") = v /\ The(c[f], 0) = v /\ The(c[f], FALSE) = v
      BY <2>2, TheOne
    <2>5. /\ j = Written(k, c[f]) /\ j # Absent
          /\ Present(d, f)
          /\ Given(d, f) <=> j # Null
      BY <2>1, WrittenFields, WrittenJson DEF Present, Given
    <2>6. ~Lost(c, f)
      BY <2>2, <2>3, NonFiniteBreaks DEF Lost
    <2>7. k = "unit" => c[f] \subseteq Units
      BY <2>2, <2>3 DEF Rule
    <2>8. WrongValue(d, f) =>
            \/ k = "schema" /\ ~IsString(j, {"1.0"})
            \/ k = "profile" /\ j[1] # "string"
            \/ k = "method" /\ ~IsString(j, Methods)
            \/ k = "backend" /\ ~IsString(j, Backends)
            \/ k = "unit" /\ ~IsString(j, Units)
            \/ k = "frame" /\ (j[1] # "string" \/ j[2] = "")
            \/ k = "flag" /\ j # Null /\ j[1] # "boolean"
            \/ (k = "seed" \/ k \in UInts \/ k \in Doubles) /\ j # Null /\ j[1] # "number"
      <3>1. k \in Kinds => \/ k \in {"schema", "profile", "method", "backend", "unit", "frame", "flag", "seed"}
                           \/ k \in UInts \/ k \in Doubles
        BY DEF Kinds, UInts, Doubles
      <3> QED BY <2>1, <2>5, <3>1, WrongByKind
    <2> SUFFICES ~WrongValue(d, f)
      BY <2>6, <2>7
    <2> HIDE DEF k, j, d
    <2>9. CASE k \in {"schema", "profile", "frame"}
      <3>1. j = <<"string", v>>
        BY <2>4, <2>5, <2>9, WrittenByKind
      <3>2. k = "frame" => v # ""
        BY <2>2, ValuesByKind DEF Texts
      <3>3. k = "schema" => v = "1.0"
        BY <2>3 DEF Rule
      <3>4. j[1] = "string" /\ j[2] = v
        BY <3>1
      <3> QED BY <2>8, <2>9, <3>2, <3>3, <3>4 DEF IsString, UInts, Doubles
    <2>10. CASE k = "unit"
      <3>1. v \in Units
        BY <2>2, <2>7, <2>10
      <3>2. j = <<"string", v>>
        BY <2>2, <2>4, <2>5, <2>10, <3>1, WrittenByKind DEF unit_to_string
      <3> QED BY <2>8, <2>10, <3>1, <3>2 DEF IsString, UInts, Doubles
    <2>11. CASE k = "method"
      <3>1. v \in Methods
        BY <2>3, <2>11 DEF Rule
      <3>2. j = <<"string", v>>
        BY <2>2, <2>4, <2>5, <2>11, <3>1, WrittenByKind
      <3> QED BY <2>8, <2>11, <3>1, <3>2 DEF IsString, UInts, Doubles
    <2>12. CASE k = "backend"
      <3>1. v \in Backends
        BY <2>3, <2>12 DEF Rule
      <3>2. j = <<"string", v>>
        BY <2>2, <2>4, <2>5, <2>12, <3>1, WrittenByKind
      <3> QED BY <2>8, <2>12, <3>1, <3>2 DEF IsString, UInts, Doubles
    <2>13. CASE k = "flag"
      <3>1. j = <<"boolean", v>>
        BY <2>2, <2>4, <2>5, <2>13, WrittenByKind
      <3> QED BY <2>8, <2>13, <3>1 DEF UInts, Doubles
    <2>14. CASE k = "seed" \/ k \in UInts \/ k \in Doubles
      <3>1. j = Null \/ j = <<"number", v>>
        <4>1. j = optional_number(c[f])
          BY <2>5, <2>14, WrittenByKind
        <4> QED BY <2>4, <4>1 DEF optional_number
      <3>2. j # Null => j[1] = "number"
        BY <3>1
      <3>3. k \notin Texts /\ k # "flag"
        BY <2>14 DEF Texts, UInts, Doubles
      <3> QED BY <2>8, <3>2, <3>3 DEF Texts
    <2> QED BY <2>1, <2>9, <2>10, <2>11, <2>12, <2>13, <2>14 DEF Kinds, UInts, Doubles
  <1>4. \A f \in Fields : Value(d, f) = c[f]
    BY <1>3, FieldComesBack
  <1>5. [f \in Fields |-> Value(d, f)] = c
    <2>1. [f \in Fields |-> Value(d, f)] = [f \in Fields |-> c[f]]
      BY <1>4
    <2> QED BY <2>1 DEF IsConfig
  <1> QED BY <1>2, <1>3, <1>5 DEF parse_config

\* A check on a field that is not lost finds the same before and after; a lost
\* field breaks its rule before, and is missing after.
LEMMA CheckComesBack ==
    ASSUME NEW c, NEW x \in Triple
    PROVE  /\ x[2] # "budget" /\ ~Lost(c, x[1]) => (Broken(c, x) <=> Broken(BackAgain(c), x))
           /\ ~Lost(c, x[1]) /\ ~Lost(c, Budget) /\ Budget \in Fields =>
                (Broken(c, x) <=> Broken(BackAgain(c), x))
           /\ Lost(c, x[1]) /\ x[2] = "required" => ~Broken(c, x) /\ Broken(BackAgain(c), x)
           /\ Lost(c, x[1]) /\ x[2] = "rule" => Broken(c, x)
  <1> DEFINE f == x[1]
             b == BackAgain(c)
  <1>1. f \in Fields /\ x[2] \in {"required", "rule", "budget"} /\ x = <<x[1], x[2]>>
    BY DEF Triple
  <1>2. b[f] = (IF Lost(c, f) THEN {} ELSE c[f]) /\ (Budget \in Fields /\ ~Lost(c, Budget) => b[Budget] = c[Budget])
    BY <1>1 DEF BackAgain
  <1>3. Lost(c, f) => c[f] = {NonFinite} /\ ~Rule(Kind[f], NonFinite)
    BY <1>1, NonFiniteBreaks DEF Lost
  <1> HIDE DEF b, f
  <1>4. \A e : Broken(e, x) <=> \/ x[2] = "required" /\ e[f] = {}
                                \/ x[2] = "rule" /\ \E v \in e[f] : ~Rule(Kind[f], v)
                                \/ /\ x[2] = "budget"
                                   /\ \E v \in e[f], w \in e[Budget] : Magnitude(v) <= w
    BY DEF Broken, Budget, f
  <1> QED BY <1>1, <1>2, <1>3, <1>4 DEF f, b

\* The first check that c breaks and the first that BackAgain(c) breaks are on
\* the same field.
LEMMA FirstComesBack ==
    ASSUME NEW c, NEW i \in DOMAIN Checks, Broken(c, Checks[i]),
           \A j \in DOMAIN Checks : j < i => ~Broken(c, Checks[j])
    PROVE  \E m \in DOMAIN Checks : /\ Checks[m][1] = Checks[i][1]
                                    /\ Broken(BackAgain(c), Checks[m])
                                    /\ \A j \in DOMAIN Checks : j < m => ~Broken(BackAgain(c), Checks[j])
  <1>1. /\ DOMAIN Checks \subseteq Int
        /\ \A j \in DOMAIN Checks : /\ Checks[j] \in Triple
                                    /\ Checks[j][1] \in Fields
                                    /\ Checks[j][2] \in {"required", "rule", "budget"}
                                    /\ Checks[j] = <<Checks[j][1], Checks[j][2]>>
    BY ChecksComplete DEF Triple
  <1>2. ASSUME NEW j \in DOMAIN Checks, Checks[j][2] = "budget", j <= i
        PROVE  ~Lost(c, Checks[j][1]) /\ ~Lost(c, Budget)
    <2>1. ASSUME NEW f \in Thresholds \union {Budget}
          PROVE  ~Lost(c, f)
      <3>1. PICK k \in DOMAIN Checks : k < j /\ Checks[k] = Ruled(f)
        BY <1>2, ChecksComplete
      <3>2. ~Broken(c, Checks[k])
        BY <1>1, <1>2, <3>1
      <3>3. Checks[k][1] = f /\ Checks[k][2] = "rule"
        BY <3>1 DEF Ruled
      <3> QED BY <1>1, <3>2, <3>3, CheckComesBack
    <2> QED BY <1>2, <2>1, ChecksComplete
  <1>3. ASSUME NEW j \in DOMAIN Checks, j < i, Lost(c, Checks[j][1])
        PROVE  i = j + 1 /\ Checks[i] = Ruled(Checks[j][1])
    <2> DEFINE f == Checks[j][1]
    <2>1. f \in Fields /\ Kind[f] \in Doubles
      BY <1>1, <1>3 DEF Lost
    <2>2. Checks[j] = Required(f)
      <3>1. Checks[j][2] # "budget"
        BY <1>1, <1>2, <1>3
      <3>2. Checks[j][2] # "rule"
        BY <1>1, <1>3, CheckComesBack
      <3> QED BY <1>1, <3>1, <3>2 DEF Required
    <2>3. j + 1 \in DOMAIN Checks /\ Checks[j + 1] = Ruled(f)
      BY <2>1, <2>2, ChecksComplete DEF Paired
    <2>4. Broken(c, Checks[j + 1])
      <3>1. Checks[j + 1][1] = f /\ Checks[j + 1][2] = "rule"
        BY <2>3 DEF Ruled
      <3> QED BY <1>1, <1>3, <2>3, <3>1, CheckComesBack
    <2>5. ~(j + 1 < i)
      BY <2>3, <2>4
    <2>6. i = j + 1
      BY <1>1, <1>3, <2>5
    <2> QED BY <2>3, <2>6
  <1>4. ASSUME NEW j \in DOMAIN Checks, j < i, ~Lost(c, Checks[j][1])
        PROVE  ~Broken(BackAgain(c), Checks[j])
    <2>1. ~Broken(c, Checks[j])
      BY <1>4
    <2>2. CASE Checks[j][2] # "budget"
      BY <1>1, <1>4, <2>1, <2>2, CheckComesBack
    <2>3. CASE Checks[j][2] = "budget"
      <3>1. ~Lost(c, Budget) /\ Budget \in Fields
        BY <1>1, <1>2, <1>4, <2>3, KindsUsed DEF Budget
      <3> QED BY <1>1, <1>4, <2>1, <3>1, CheckComesBack
    <2> QED BY <2>2, <2>3
  <1>5. CASE Lost(c, Checks[i][1])
    <2> DEFINE f == Checks[i][1]
    <2>1. f \in Fields /\ Kind[f] \in Doubles
      BY <1>1, <1>5 DEF Lost
    <2>2. Checks[i] = Ruled(f)
      <3>1. Checks[i][2] # "budget"
        BY <1>1, <1>2, <1>5
      <3>2. Checks[i][2] # "required"
        BY <1>1, <1>5, CheckComesBack
      <3> QED BY <1>1, <3>1, <3>2 DEF Ruled
    <2>3. i - 1 \in DOMAIN Checks /\ Checks[i - 1] = Required(f)
      BY <2>1, <2>2, ChecksComplete DEF Paired
    <2>4. Checks[i - 1][1] = f /\ Checks[i - 1][2] = "required"
      BY <2>3 DEF Required
    <2>5. Broken(BackAgain(c), Checks[i - 1])
      BY <1>1, <1>5, <2>3, <2>4, CheckComesBack
    <2>6. ASSUME NEW j \in DOMAIN Checks, j < i - 1
          PROVE  ~Broken(BackAgain(c), Checks[j])
      <3>1. j < i /\ i # j + 1
        BY <1>1, <2>6
      <3> QED BY <1>3, <1>4, <3>1
    <2> QED BY <2>3, <2>4, <2>5, <2>6
  <1>6. CASE ~Lost(c, Checks[i][1])
    <2>1. Broken(BackAgain(c), Checks[i])
      <3>1. CASE Checks[i][2] # "budget"
        BY <1>1, <1>6, <3>1, CheckComesBack
      <3>2. CASE Checks[i][2] = "budget"
        <4>1. ~Lost(c, Budget) /\ Budget \in Fields
          BY <1>1, <1>2, <3>2, KindsUsed DEF Budget
        <4> QED BY <1>1, <1>6, <4>1, CheckComesBack
      <3> QED BY <3>1, <3>2
    <2>2. ASSUME NEW j \in DOMAIN Checks, j < i
          PROVE  ~Broken(BackAgain(c), Checks[j])
      <3>1. ~Lost(c, Checks[j][1])
        BY <1>3, <1>6, <2>2 DEF Ruled
      <3> QED BY <1>4, <2>2, <3>1
    <2> QED BY <2>1, <2>2
  <1> QED BY <1>5, <1>6

\* A configuration that is refused is refused at the same field when it comes
\* back.
LEMMA VerdictComesBack ==
    ASSUME NEW c, validate_config(c) # {}
    PROVE  {e[1] : e \in validate_config(BackAgain(c))} = {e[1] : e \in validate_config(c)}
  <1> DEFINE b == BackAgain(c)
  <1>1. PICK i \in DOMAIN Checks : /\ Broken(c, Checks[i])
                                   /\ \A j \in DOMAIN Checks : j < i => ~Broken(c, Checks[j])
                                   /\ validate_config(c) = {Checks[i]}
    BY FirstFound
  <1>2. PICK m \in DOMAIN Checks : /\ Checks[m][1] = Checks[i][1]
                                   /\ Broken(b, Checks[m])
                                   /\ \A j \in DOMAIN Checks : j < m => ~Broken(b, Checks[j])
    BY <1>1, FirstComesBack
  <1>3. PICK n \in DOMAIN Checks : /\ Broken(b, Checks[n])
                                   /\ \A j \in DOMAIN Checks : j < n => ~Broken(b, Checks[j])
                                   /\ validate_config(b) = {Checks[n]}
    BY <1>2, FirstFound
  <1>4. DOMAIN Checks \subseteq Int
    BY ChecksComplete
  <1>5. m = n
    BY <1>2, <1>3, <1>4
  <1> QED BY <1>1, <1>2, <1>3, <1>5

-----------------------------------------------------------------------------
(***************************************************************************)
(* The inductive invariant                                                 *)
(***************************************************************************)
Stages == {"edit", "text", "unserializable", "unparsable", "parsed", "accepted", "refused"}

TypeInv == /\ stage \in Stages
           /\ IsConfig(config)
           /\ \A c \in source : IsConfig(c)
           /\ \A d \in document : IsDocument(d)
           /\ \A d, e \in document : d = e

\* There is no text before serialize_config has written one, and as long as
\* it is remembered what the text was written from, it says nothing else.
Origin == /\ stage = "edit" => document = {} /\ source = {}
          /\ stage = "text" => document # {}
          /\ stage # "unserializable" => \A c \in source : document = {config_to_json(c)}

\* What parse_config made of the text.
Reading == /\ stage = "unparsable" => \A d \in document : parse_config(d) = {}
           /\ stage \in {"parsed", "accepted", "refused"} =>
                \A d \in document : parse_config(d) = {config}

\* What validate_config made of the configuration.
Verdicts == /\ stage \in {"accepted", "refused"} => error = validate_config(config)
            /\ stage = "accepted" => error = {}
            /\ stage = "refused" => error # {}

IInv == TypeInv /\ Origin /\ Reading /\ Verdicts

LEMMA SerializedIsDocument ==
    ASSUME NEW c, IsConfig(c)
    PROVE  IsDocument(config_to_json(c))
  <1> DEFINE d == config_to_json(c)
  <1>1. \A f \in Fields : IsJson(d.fields[f])
    <2> SUFFICES ASSUME NEW f \in Fields PROVE IsJson(d.fields[f])
      OBVIOUS
    <2>1. IsOptional(Kind[f], c[f]) /\ Kind[f] \in Kinds
      BY KindsListed DEF IsConfig
    <2> QED BY <2>1, WrittenFields, WrittenJson
  <1>2. d = [sections |-> d.sections, fields |-> d.fields]
    BY DEF config_to_json
  <1>3. d.sections = [s \in Sections |-> "object"]
    BY DEF config_to_json
  <1>4. DOMAIN d.fields = Fields /\ d.fields = [f \in Fields |-> d.fields[f]]
    BY DEF config_to_json
  <1>5. d.sections \in [Sections -> {"object", "absent", "scalar"}]
    BY <1>3
  <1> HIDE DEF d
  <1>6. d.fields \in [Fields -> {d.fields[f] : f \in Fields}]
    BY <1>4
  <1> QED BY <1>1, <1>2, <1>5, <1>6 DEF IsDocument, d

LEMMA ParsedIsConfig ==
    ASSUME NEW d, IsDocument(d), parse_config(d) # {}
    PROVE  \E c : parse_config(d) = {c} /\ IsConfig(c)
  <1> DEFINE c == [f \in Fields |-> Value(d, f)]
  <1>1. parse_config(d) = {c} /\ \A f \in Fields : ~WrongValue(d, f)
    BY DEF parse_config
  <1>2. \A f \in Fields : IsOptional(Kind[f], c[f])
    BY <1>1, ValueTyped
  <1>3. c = [f \in Fields |-> c[f]]
    OBVIOUS
  <1> QED BY <1>1, <1>2, <1>3 DEF IsConfig

LEMMA InitInductive == Init => IInv
  <1> SUFFICES ASSUME Init PROVE IInv
    OBVIOUS
  <1>1. IsConfig(config)
    BY ValuesAssumption DEF Init, IsConfig
  <1> QED BY <1>1 DEF Init, IInv, TypeInv, Origin, Reading, Verdicts, Stages

LEMMA NextInductive == IInv /\ [Next]_vars => IInv'
  <1> SUFFICES ASSUME IInv, [Next]_vars PROVE IInv'
    OBVIOUS
  <1>1. ASSUME NEW f \in Fields, NEW x \in RawValues[Kind[f]], SetField(f, x)
        PROVE  IInv'
    <2>1. IsConfig(config')
      <3>1. config' = [g \in Fields |-> IF g = f THEN x ELSE config[g]]
        BY <1>1 DEF SetField, IInv, TypeInv, IsConfig
      <3>2. \A g \in Fields : IsOptional(Kind[g], config'[g])
        BY <3>1, ValuesAssumption DEF IInv, TypeInv, IsConfig
      <3> QED BY <3>1, <3>2 DEF IsConfig
    <2> QED BY <1>1, <2>1 DEF SetField, IInv, TypeInv, Origin, Reading, Verdicts
  <1>2. ASSUME NEW f \in Fields, NEW j \in JsonValues[Kind[f]], Author(f, j)
        PROVE  IInv'
    <2>1. PICK d : document = {d} /\ IsDocument(d)
      BY <1>2 DEF Author, IInv, TypeInv, Origin
    <2>2. document' = {[d EXCEPT !.fields[f] = j]}
      BY <1>2, <2>1 DEF Author
    <2>3. IsDocument([d EXCEPT !.fields[f] = j])
      <3> DEFINE e == [d EXCEPT !.fields[f] = j]
      <3>1. /\ d = [sections |-> d.sections, fields |-> d.fields]
            /\ d.sections \in [Sections -> {"object", "absent", "scalar"}]
            /\ DOMAIN d.fields = Fields /\ d.fields = [g \in Fields |-> d.fields[g]]
        BY <2>1 DEF IsDocument
      <3>2. e = [sections |-> d.sections, fields |-> [g \in Fields |-> IF g = f THEN j ELSE d.fields[g]]]
        BY <3>1
      <3>3. e.sections = d.sections /\ e.fields = [g \in Fields |-> IF g = f THEN j ELSE d.fields[g]]
        BY <3>2
      <3>4. \A g \in Fields : IsJson(e.fields[g])
        BY <2>1, <3>3, ValuesAssumption DEF IsDocument
      <3>5. e = [sections |-> e.sections, fields |-> e.fields]
        BY <3>2, <3>3
      <3> HIDE DEF e
      <3>6. e.fields \in [Fields -> {e.fields[g] : g \in Fields}]
        BY <3>3
      <3> QED BY <3>1, <3>3, <3>4, <3>5, <3>6 DEF IsDocument, e
    <2> QED BY <1>2, <2>2, <2>3 DEF Author, IInv, TypeInv, Origin, Reading, Verdicts
  <1>3. ASSUME NEW s \in Sections, NEW shape \in {"absent", "scalar"}, AuthorSection(s, shape)
        PROVE  IInv'
    <2>1. PICK d : document = {d} /\ IsDocument(d)
      BY <1>3 DEF AuthorSection, IInv, TypeInv, Origin
    <2>2. document' = {[d EXCEPT !.sections[s] = shape]}
      BY <1>3, <2>1 DEF AuthorSection
    <2>3. IsDocument([d EXCEPT !.sections[s] = shape])
      <3> DEFINE e == [d EXCEPT !.sections[s] = shape]
      <3>1. /\ d = [sections |-> d.sections, fields |-> d.fields]
            /\ d.sections \in [Sections -> {"object", "absent", "scalar"}]
            /\ d.fields \in [Fields -> {d.fields[g] : g \in Fields}]
        BY <2>1 DEF IsDocument
      <3>2. e = [sections |-> [d.sections EXCEPT ![s] = shape], fields |-> d.fields]
        BY <3>1
      <3>3. e.sections = [d.sections EXCEPT ![s] = shape] /\ e.fields = d.fields
        BY <3>2
      <3>4. e.sections \in [Sections -> {"object", "absent", "scalar"}]
        BY <3>1, <3>3
      <3>5. \A g \in Fields : IsJson(e.fields[g])
        BY <2>1, <3>3 DEF IsDocument
      <3>6. e = [sections |-> e.sections, fields |-> e.fields]
        BY <3>2, <3>3
      <3> HIDE DEF e
      <3> QED BY <3>1, <3>3, <3>4, <3>5, <3>6 DEF IsDocument, e
    <2> QED BY <1>3, <2>2, <2>3 DEF AuthorSection, IInv, TypeInv, Origin, Reading, Verdicts
  <1>4. CASE Serialize
    <2>1. IsDocument(config_to_json(config))
      BY SerializedIsDocument DEF IInv, TypeInv
    <2>2. document' = {} \/ document' = {config_to_json(config)}
      BY <1>4 DEF Serialize, serialize_config
    <2>3. stage' = (IF document' = {} THEN "unserializable" ELSE "text") /\ source' = {config} /\ config' = config
      BY <1>4 DEF Serialize
    <2> QED BY <2>1, <2>2, <2>3 DEF IInv, TypeInv, Origin, Reading, Verdicts, Stages
  <1>5. CASE Parse
    <2>1. PICK d : document = {d} /\ IsDocument(d)
      BY <1>5 DEF Parse, IInv, TypeInv, Origin
    <2>2. UNION {parse_config(e) : e \in document} = parse_config(d)
      BY <2>1
    <2>3. /\ stage' = IF parse_config(d) = {} THEN "unparsable" ELSE "parsed"
          /\ config' = The(parse_config(d), config)
          /\ document' = document /\ source' = source
      BY <1>5, <2>2 DEF Parse
    <2>4. CASE parse_config(d) = {}
      <3>1. config' = config
        BY <2>3, <2>4, TheOne
      <3> QED BY <2>1, <2>3, <2>4, <3>1, <1>5 DEF Parse, IInv, TypeInv, Origin, Reading, Verdicts, Stages
    <2>5. CASE parse_config(d) # {}
      <3>1. PICK c : parse_config(d) = {c} /\ IsConfig(c)
        BY <2>1, <2>5, ParsedIsConfig
      <3>2. config' = c
        BY <2>3, <3>1, TheOne
      <3> QED BY <2>1, <2>3, <2>5, <3>1, <3>2, <1>5 DEF Parse, IInv, TypeInv, Origin, Reading, Verdicts, Stages
    <2> QED BY <2>4, <2>5
  <1>6. CASE Validate
    BY <1>6 DEF Validate, IInv, TypeInv, Origin, Reading, Verdicts, Stages
  <1>7. CASE UNCHANGED vars
    BY <1>7 DEF vars, IInv, TypeInv, Origin, Reading, Verdicts
  <1> QED BY <1>1, <1>2, <1>3, <1>4, <1>5, <1>6, <1>7 DEF Next, Change

\* Of every reachable state: the configuration and the text are of their
\* types, and stage, text and error belong to the configuration in memory.
THEOREM Inductive == Spec => []IInv
  BY InitInductive, NextInductive, PTL DEF Spec

-----------------------------------------------------------------------------
(***************************************************************************)
(* The properties                                                          *)
(***************************************************************************)
LEMMA NoDefaultFollows == IInv => NoImplicitDefault
  <1> SUFFICES ASSUME IInv, stage = "accepted", NEW d \in document, NEW f \in Fields \ {"method", "backend"}
               PROVE  Given(d, f)
    BY DEF NoImplicitDefault
  <1>1. parse_config(d) = {config} /\ validate_config(config) = {}
    BY DEF IInv, Reading, Verdicts
  <1>2. config = [g \in Fields |-> Value(d, g)]
    BY <1>1 DEF parse_config
  <1>3. Value(d, f) # {}
    BY <1>1, <1>2, AcceptedFields
  <1>4. Kind[f] # "method" /\ Kind[f] # "backend"
    <2>1. Special["method"] = {"method"} /\ Special["backend"] = {"backend"}
      BY DEF Special
    <2> QED BY <2>1, KindIsSpecial
  <1>5. Kind[f] \in Kinds
    BY KindsListed
  <1> QED BY <1>3, <1>4, <1>5, ValueByKind, KindClasses DEF Texts, optional_bool

\* Of every reachable state: no default completes a document that omits a
\* setting (json_to_config, validate_config).
THEOREM NoDefaults == Spec => []NoImplicitDefault
  BY Inductive, NoDefaultFollows, PTL

LEMMA AcceptedFollows == IInv => AcceptedEverywhere
  <1> SUFFICES ASSUME IInv, stage = "accepted"
               PROVE  /\ validate_registration_parameters(to_registration_parameters(config))
                      /\ SizesAccepted(config)
                      /\ \A b \in config[Budget] :
                            /\ \A v \in config["positive_threshold_mm"] : v > b
                            /\ \A v \in config["negative_threshold_mm"] : v < -b
    BY DEF AcceptedEverywhere, Budget
  <1>1. validate_config(config) = {} /\ IsConfig(config)
    BY DEF IInv, Verdicts, TypeInv
  <1>2. \A f \in Fields : config[f] # {} /\ \A v \in config[f] : Rule(Kind[f], v)
    BY <1>1, AcceptedFields
  <1>3. \A f \in PositiveFields : config[f] # {} /\ \A v \in config[f] : FinitePositive(v)
    BY <1>2, KindsUsed DEF Rule, FinitePositive
  <1>4. \A v \in config["normal_min_neighbors"] : v >= 3
    BY <1>2, KindsUsed DEF Rule
  <1>5. /\ config["max_iterations"] # {} /\ \A v \in config["max_iterations"] : v \in 1 .. 1000
        /\ config["method"] # {} /\ \A v \in config["method"] : v \in Methods
        /\ config["thread_count"] # {} /\ \A v \in config["thread_count"] : v >= 1
    BY <1>2, KindsUsed DEF Rule, IterationsRule
  <1>6. validate_registration_parameters(to_registration_parameters(config))
    <2> DEFINE p == to_registration_parameters(config)
    <2>1. /\ FieldsOf.registration = {"method", "max_iterations"} \union (FieldsOf.registration \ {"method", "max_iterations"})
          /\ FieldsOf.registration \ {"method", "max_iterations"} \subseteq PositiveFields
      BY DEF FieldsOf, PositiveFields
    <2>2. \A f \in FieldsOf.registration \union {"thread_count"} : p[f] = CHOOSE v \in config[f] : TRUE
      BY DEF to_registration_parameters
    <2>3. \A f \in FieldsOf.registration \union {"thread_count"} : config[f] # {} => p[f] \in config[f]
      BY <2>2
    <2> HIDE DEF p
    <2>4. \A f \in FieldsOf.registration \ {"method", "max_iterations"} : FinitePositive(p[f])
      BY <1>3, <2>1, <2>3
    <2>5. p["max_iterations"] \in 1 .. 1000 /\ p["method"] \in Methods
      BY <1>5, <2>1, <2>3
    <2>6. p["thread_count"] # 0
      <3>1. p["thread_count"] >= 1
        BY <1>5, <2>3
      <3> QED BY <3>1
    <2>7. CovarianceNeighbors \in 3 .. 1024
      BY DEF CovarianceNeighbors
    <2> QED BY <2>4, <2>5, <2>6, <2>7 DEF validate_registration_parameters, p
  <1>7. SizesAccepted(config)
    BY <1>3, <1>4 DEF SizesAccepted, PositiveFields
  <1>8. ASSUME NEW b \in config[Budget]
        PROVE  /\ \A v \in config["positive_threshold_mm"] : v > b
               /\ \A v \in config["negative_threshold_mm"] : v < -b
    <2>1. b \in Int /\ \A f \in Thresholds : \A v \in config[f] : v \in Int
      <3>1. \A f \in Thresholds \union {Budget} : f \in Fields /\ Kind[f] \in Doubles
        BY KindsUsed DEF Thresholds, Budget, PositiveFields, Doubles
      <3>2. \A f \in Thresholds \union {Budget} : \A v \in config[f] : IsValue(Kind[f], v)
        BY <1>1, <3>1 DEF IsConfig, IsOptional
      <3> QED BY <3>1, <3>2, ValuesByKind
    <2>2. \A f \in Thresholds : \A v \in config[f] : ~(Magnitude(v) <= b)
      BY <1>1, AcceptedFields
    <2>3. /\ \A v \in config["positive_threshold_mm"] : v > 0
          /\ \A v \in config["negative_threshold_mm"] : v < 0
      BY <1>2, KindsUsed DEF Rule, PositiveFields
    <2>4. ASSUME NEW v \in config["positive_threshold_mm"]
          PROVE  v > b
      <3>1. v \in Int /\ ~(Magnitude(v) <= b) /\ v > 0
        BY <2>1, <2>2, <2>3 DEF Thresholds
      <3> QED BY <2>1, <3>1 DEF Magnitude
    <2>5. ASSUME NEW v \in config["negative_threshold_mm"]
          PROVE  v < -b
      <3>1. v \in Int /\ ~(Magnitude(v) <= b) /\ v < 0
        BY <2>1, <2>2, <2>3 DEF Thresholds
      <3> QED BY <2>1, <3>1 DEF Magnitude
    <2> QED BY <2>4, <2>5
  <1> QED BY <1>6, <1>7, <1>8

\* Of every reachable state: what validate_config accepted no later stage
\* refuses, and the thresholds exceed the error budget.
THEOREM NoLateRefusal == Spec => []AcceptedEverywhere
  BY Inductive, AcceptedFollows, PTL

LEMMA RoundTripFollows == IInv => RoundTripFaithful
  <1> SUFFICES ASSUME IInv, stage \in {"unparsable", "accepted", "refused"}, NEW c \in source,
                      c["reference_unit"] \union c["scan_unit"] \subseteq Units
               PROVE  IF validate_config(c) = {}
                      THEN stage = "accepted" /\ config = c
                      ELSE \/ stage = "unparsable"
                           \/ {e[1] : e \in error} = {e[1] : e \in validate_config(c)}
    BY DEF RoundTripFaithful
  <1> DEFINE d == config_to_json(c)
  <1>1. IsConfig(c) /\ document = {d}
    BY DEF IInv, TypeInv, Origin
  <1>2. CASE validate_config(c) = {}
    <2>1. parse_config(d) = {c}
      BY <1>1, <1>2, ValidComesBack
    <2>2. stage # "unparsable"
      BY <1>1, <2>1 DEF IInv, Reading
    <2>3. config = c
      BY <1>1, <2>1, <2>2 DEF IInv, Reading
    <2>4. stage = "accepted"
      BY <1>2, <2>2, <2>3 DEF IInv, Verdicts
    <2> QED BY <1>2, <2>3, <2>4
  <1>3. CASE validate_config(c) # {} /\ stage # "unparsable"
    <2>1. parse_config(d) = {config} /\ error = validate_config(config)
      BY <1>1, <1>3 DEF IInv, Reading, Verdicts
    <2>2. \A f \in Fields : ~WrongValue(d, f)
      BY <2>1 DEF parse_config
    <2>3. config = [f \in Fields |-> Value(d, f)]
      BY <2>1 DEF parse_config
    <2>4. ASSUME NEW f \in Fields
          PROVE  Value(d, f) = IF Lost(c, f) THEN {} ELSE c[f]
      <3>1. Kind[f] = "unit" => f \in {"reference_unit", "scan_unit"}
        BY KindIsSpecial DEF Special
      <3> QED BY <1>1, <2>2, <3>1, FieldComesBack
    <2>5. config = BackAgain(c)
      BY <2>3, <2>4 DEF BackAgain
    <2> QED BY <1>3, <2>1, <2>5, VerdictComesBack
  <1> QED BY <1>2, <1>3

\* Of every reachable state: a configuration and what comes back of it from
\* serialize_config and parse_config are judged alike.
THEOREM RoundTrip == Spec => []RoundTripFaithful
  BY Inductive, RoundTripFollows, PTL

=============================================================================
