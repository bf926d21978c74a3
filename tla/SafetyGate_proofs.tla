------------------------- MODULE SafetyGate_proofs -------------------------
(***************************************************************************)
(* What a plan that passes the Safety Gate is known to be, for every plan: *)
(* of any number of items, with any values in their parameters.            *)
(***************************************************************************)
EXTENDS SafetyGate, WellFoundedInduction, TLAPS

\* Tables of rows: none of them denies exactly when no row does.
LEMMA PlanRowsSilent ==
  ASSUME NEW d, ~Denies(PlanRows(d))
  PROVE  /\ d.pattern \in {"urgent", "deferred"}
         /\ ~(d.verifyWindow <= 0)
         /\ d.items # <<>>
<1>1. DOMAIN PlanRows(d) = 1..3
  BY DEF PlanRows
<1>2. \A i \in 1..3 : ~PlanRows(d)[i].when
  BY <1>1 DEF Denies
<1>3. ~PlanRows(d)[1].when /\ ~PlanRows(d)[2].when /\ ~PlanRows(d)[3].when
  BY <1>2
<1> QED
  BY <1>3 DEF PlanRows, Row

\* A table made of two denies nothing if neither does.
LEMMA NothingDenied ==
  ASSUME NEW S, NEW s \in Seq(S), NEW t \in Seq(S), ~Denies(s \o t)
  PROVE  ~Denies(s) /\ ~Denies(t)
<1>1. ASSUME NEW i \in DOMAIN s
      PROVE  i \in DOMAIN (s \o t) /\ (s \o t)[i] = s[i]
  OBVIOUS
<1>2. ASSUME NEW i \in DOMAIN t
      PROVE  Len(s) + i \in DOMAIN (s \o t) /\ (s \o t)[Len(s) + i] = t[i]
  <2>1. i \in 1..Len(t) /\ Len(s) \in Nat /\ Len(t) \in Nat
    OBVIOUS
  <2> QED
    BY <2>1
<1> QED
  BY <1>1, <1>2 DEF Denies

LEMMA SixRowsAndFive ==
  ASSUME NEW r1, NEW r2, NEW r3, NEW r4, NEW r5, NEW r6,
         NEW b1, NEW b2, NEW b3, NEW b4, NEW b5,
         ~Denies(<<r1, r2, r3, r4, r5, r6>> \o <<b1, b2, b3, b4, b5>>)
  PROVE  /\ ~r1.when /\ ~r2.when /\ ~r3.when /\ ~r4.when /\ ~r5.when /\ ~r6.when
         /\ ~Denies(<<b1, b2, b3, b4, b5>>)
<1> DEFINE R == {r1, r2, r3, r4, r5, r6, b1, b2, b3, b4, b5}
           own == <<r1, r2, r3, r4, r5, r6>>
           blast == <<b1, b2, b3, b4, b5>>
<1>1. own \in Seq(R) /\ blast \in Seq(R)
  OBVIOUS
<1>2. DOMAIN own = 1..6
  OBVIOUS
<1>3. ~Denies(own) /\ ~Denies(blast)
  <2> HIDE DEF own, blast, R
  <2> QED
    BY <1>1, NothingDenied DEF own, blast
<1>4. \A i \in 1..6 : ~own[i].when
  BY <1>2, <1>3 DEF Denies
<1>5. /\ ~own[1].when /\ ~own[2].when /\ ~own[3].when
      /\ ~own[4].when /\ ~own[5].when /\ ~own[6].when
  BY <1>4
<1> QED
  BY <1>3, <1>5

LEMMA ItemRowsSilent ==
  ASSUME NEW d, NEW ns, NEW it, ~Denies(ItemRows(d, ns, it))
  PROVE  /\ it.action \in AllowedActions
         /\ d.pattern = "urgent" => it.action \in UrgentActions
         /\ d.pattern = "deferred" => it.action \in DeferredActions
         /\ it.ns # Absent /\ it.ns = ns /\ it.ns \in d.allowed
         /\ ~Denies(BlastRadiusRows(d, it))
<1> DEFINE r1 == Row(it.action \notin AllowedActions, "denied_action_not_allowed")
           r2 == Row(d.pattern = "urgent" /\ it.action \notin UrgentActions,
                     "invalid_pattern_type")
           r3 == Row(d.pattern = "deferred" /\ it.action \notin DeferredActions,
                     "invalid_pattern_type")
           r4 == Row(it.ns = Absent, "missing_target_namespace")
           r5 == Row(it.ns # ns, "denied_cross_tenant")
           r6 == Row(it.ns \notin d.allowed, "denied_cross_tenant")
           b == BlastRadiusRows(d, it)
<1>1. PICK b1, b2, b3, b4, b5 : b = <<b1, b2, b3, b4, b5>>
  BY DEF BlastRadiusRows
<1>2. ItemRows(d, ns, it) = <<r1, r2, r3, r4, r5, r6>> \o <<b1, b2, b3, b4, b5>>
  BY <1>1 DEF ItemRows
<1>3. /\ ~r1.when /\ ~r2.when /\ ~r3.when /\ ~r4.when /\ ~r5.when /\ ~r6.when
      /\ ~Denies(<<b1, b2, b3, b4, b5>>)
  <2> HIDE DEF r1, r2, r3, r4, r5, r6
  <2> QED
    BY <1>2, SixRowsAndFive
<1> QED
  BY <1>1, <1>3 DEF Row

LEMMA BlastRadiusRowsSilent ==
  ASSUME NEW d, NEW it, ~Denies(BlastRadiusRows(d, it))
  PROVE  /\ ~(d.impactPct > 100)
         /\ it.action = "SCALE_REPLICAS" =>
              it.replicas # Absent /\ ~(it.replicas < MinReplicas) /\ ~(it.replicas > MaxReplicas)
         /\ it.action = "PATCH_MEMORY_LIMIT" =>
              it.memory # Absent /\ ~(it.memory > MaxMemory)
<1> DEFINE rows == BlastRadiusRows(d, it)
<1>1. DOMAIN rows = 1..5
  BY DEF BlastRadiusRows
<1>2. \A i \in 1..5 : ~rows[i].when
  BY <1>1 DEF Denies
<1>3. ~rows[1].when /\ ~rows[2].when /\ ~rows[3].when /\ ~rows[4].when /\ ~rows[5].when
  BY <1>2
<1> QED
  BY <1>3 DEF BlastRadiusRows, Row, TooFewReplicas, TooManyReplicas
-----------------------------------------------------------------------------
(***************************************************************************)
(* A plan as from_dict of models.py builds it, with numbers where the gate *)
(* compares them (check() of a text instead of a number raises).           *)
(***************************************************************************)
WellFormed(d) ==
  /\ d.verifyWindow \in Int
  /\ d.impactPct \in Int
  /\ \E S : d.items \in Seq(S)
  /\ \A i \in DOMAIN d.items :
       /\ d.items[i].replicas = Absent \/ d.items[i].replicas \in Int
       /\ d.items[i].memory = Absent \/ d.items[i].memory \in Int

\* A plan passes the gate only if it is safe in the sense of Safe: nothing gets
\* past the order of its tests, however many items the plan has.
THEOREM AllowedIsSafe ==
  ASSUME GateAssumption, NEW d, NEW ns, WellFormed(d), Allows(d, ns)
  PROVE  Safe(d, ns)
<1>1. /\ d.pattern \in {"urgent", "deferred"}
      /\ ~(d.verifyWindow <= 0)
      /\ d.items # <<>>
  BY PlanRowsSilent DEF Allows
<1>2. ASSUME NEW i \in DOMAIN d.items
      PROVE  /\ d.items[i].action \in AllowedActions
             /\ d.pattern = "urgent" => d.items[i].action \in UrgentActions
             /\ d.pattern = "deferred" => d.items[i].action \in DeferredActions
             /\ d.items[i].ns # Absent /\ d.items[i].ns = ns /\ d.items[i].ns \in d.allowed
             /\ ~(d.impactPct > 100)
             /\ d.items[i].action = "SCALE_REPLICAS" =>
                  /\ d.items[i].replicas # Absent
                  /\ ~(d.items[i].replicas < MinReplicas)
                  /\ ~(d.items[i].replicas > MaxReplicas)
             /\ d.items[i].action = "PATCH_MEMORY_LIMIT" =>
                  d.items[i].memory # Absent /\ ~(d.items[i].memory > MaxMemory)
  <2>1. ~Denies(ItemRows(d, ns, d.items[i]))
    BY <1>2 DEF Allows, ItemsToTest, ItemDenied
  <2> QED
    BY <2>1, ItemRowsSilent, BlastRadiusRowsSilent
<1>3. 1 \in DOMAIN d.items
  BY <1>1 DEF WellFormed
<1>4. d.verifyWindow > 0 /\ d.impactPct <= 100
  BY <1>1, <1>2, <1>3 DEF WellFormed
<1>5. ASSUME NEW i \in DOMAIN d.items
      PROVE  /\ d.items[i].action = "SCALE_REPLICAS" =>
                  /\ d.items[i].replicas # Absent
                  /\ d.items[i].replicas >= MinReplicas
                  /\ d.items[i].replicas <= MaxReplicas
             /\ d.items[i].action = "PATCH_MEMORY_LIMIT" =>
                  d.items[i].memory # Absent /\ d.items[i].memory <= MaxMemory
  BY <1>2, <1>5 DEF WellFormed, GateAssumption
<1>6. \/ d.pattern = "urgent" /\ \A i \in DOMAIN d.items : d.items[i].action \in UrgentActions
      \/ d.pattern = "deferred" /\ \A i \in DOMAIN d.items : d.items[i].action \in DeferredActions
  BY <1>1, <1>2
<1> QED
  BY <1>1, <1>2, <1>3, <1>4, <1>5, <1>6 DEF Safe

\* A table made of two denies only what one of them does.
LEMMA NothingElseDenied ==
  ASSUME NEW S, NEW s \in Seq(S), NEW t \in Seq(S), ~Denies(s), ~Denies(t)
  PROVE  ~Denies(s \o t)
<1> SUFFICES ASSUME NEW i \in DOMAIN (s \o t), (s \o t)[i].when
             PROVE  FALSE
  BY DEF Denies
<1>1. Len(s) \in Nat /\ Len(t) \in Nat /\ i \in 1..Len(s) + Len(t)
  OBVIOUS
<1>2. CASE i <= Len(s)
  <2>1. i \in DOMAIN s /\ (s \o t)[i] = s[i]
    BY <1>1, <1>2
  <2> QED
    BY <2>1 DEF Denies
<1>3. CASE ~(i <= Len(s))
  <2>1. i - Len(s) \in DOMAIN t /\ (s \o t)[i] = t[i - Len(s)]
    BY <1>1, <1>3
  <2> QED
    BY <2>1 DEF Denies
<1> QED
  BY <1>2, <1>3

LEMMA ElevenRowsSilent ==
  ASSUME NEW r1, NEW r2, NEW r3, NEW r4, NEW r5, NEW r6,
         NEW b1, NEW b2, NEW b3, NEW b4, NEW b5,
         ~r1.when, ~r2.when, ~r3.when, ~r4.when, ~r5.when, ~r6.when,
         ~b1.when, ~b2.when, ~b3.when, ~b4.when, ~b5.when
  PROVE  ~Denies(<<r1, r2, r3, r4, r5, r6>> \o <<b1, b2, b3, b4, b5>>)
<1> DEFINE R == {r1, r2, r3, r4, r5, r6, b1, b2, b3, b4, b5}
           own == <<r1, r2, r3, r4, r5, r6>>
           blast == <<b1, b2, b3, b4, b5>>
<1>1. own \in Seq(R) /\ blast \in Seq(R)
  OBVIOUS
<1>2. ~Denies(own)
  <2>1. DOMAIN own = 1..6
    OBVIOUS
  <2>2. ASSUME NEW i \in 1..6
        PROVE  ~own[i].when
    <3>1. i = 1 \/ i = 2 \/ i = 3 \/ i = 4 \/ i = 5 \/ i = 6
      OBVIOUS
    <3> QED
      BY <3>1
  <2> QED
    BY <2>1, <2>2 DEF Denies
<1>3. ~Denies(blast)
  <2>1. DOMAIN blast = 1..5
    OBVIOUS
  <2>2. ASSUME NEW i \in 1..5
        PROVE  ~blast[i].when
    <3>1. i = 1 \/ i = 2 \/ i = 3 \/ i = 4 \/ i = 5
      OBVIOUS
    <3> QED
      BY <3>1
  <2> QED
    BY <2>1, <2>2 DEF Denies
<1>4. ~Denies(own \o blast)
  <2> HIDE DEF own, blast, R
  <2> QED
    BY <1>1, <1>2, <1>3, NothingElseDenied
<1> QED
  BY <1>4

LEMMA PlanRowsPassed ==
  ASSUME NEW d, d.pattern \in {"urgent", "deferred"}, ~(d.verifyWindow <= 0), d.items # <<>>
  PROVE  ~Denies(PlanRows(d))
<1>1. DOMAIN PlanRows(d) = 1..3
  BY DEF PlanRows
<1>2. ~PlanRows(d)[1].when /\ ~PlanRows(d)[2].when /\ ~PlanRows(d)[3].when
  BY DEF PlanRows, Row
<1>3. ASSUME NEW i \in 1..3
      PROVE  ~PlanRows(d)[i].when
  <2>1. i = 1 \/ i = 2 \/ i = 3
    OBVIOUS
  <2> QED
    BY <1>2, <2>1
<1> QED
  BY <1>1, <1>3 DEF Denies

\* The gate stops no safe plan: the order and the grouping of its tests add no
\* reason to deny.
LEMMA SafeIsAllowed ==
  ASSUME GateAssumption, NEW d, NEW ns, WellFormed(d), Safe(d, ns)
  PROVE  Allows(d, ns)
<1>1. ~Denies(PlanRows(d))
  BY PlanRowsPassed DEF Safe, WellFormed
<1>2. ASSUME NEW i \in DOMAIN d.items
      PROVE  ~ItemDenied(d, ns, i)
  <2> DEFINE it == d.items[i]
  <2>1. /\ it.action \in AllowedActions
        /\ ~(d.pattern = "urgent" /\ it.action \notin UrgentActions)
        /\ ~(d.pattern = "deferred" /\ it.action \notin DeferredActions)
        /\ it.ns # Absent /\ it.ns = ns /\ it.ns \in d.allowed
    BY DEF Safe, AllowedActions, UrgentActions, DeferredActions
  <2>2. /\ ~(it.action = "SCALE_REPLICAS" /\ it.replicas = Absent)
        /\ ~(it.action = "SCALE_REPLICAS" /\ TooFewReplicas(it))
        /\ ~(it.action = "SCALE_REPLICAS" /\ TooManyReplicas(it))
        /\ ~(it.action = "PATCH_MEMORY_LIMIT" /\ (it.memory = Absent \/ it.memory > MaxMemory))
        /\ ~(d.impactPct > 100)
    BY DEF Safe, WellFormed, GateAssumption, TooFewReplicas, TooManyReplicas
  <2>3. ~Denies(ItemRows(d, ns, it))
    <3> DEFINE r1 == Row(it.action \notin AllowedActions, "denied_action_not_allowed")
               r2 == Row(d.pattern = "urgent" /\ it.action \notin UrgentActions,
                         "invalid_pattern_type")
               r3 == Row(d.pattern = "deferred" /\ it.action \notin DeferredActions,
                         "invalid_pattern_type")
               r4 == Row(it.ns = Absent, "missing_target_namespace")
               r5 == Row(it.ns # ns, "denied_cross_tenant")
               r6 == Row(it.ns \notin d.allowed, "denied_cross_tenant")
               b1 == Row(it.action = "SCALE_REPLICAS" /\ it.replicas = Absent,
                         "blast_radius_exceeded")
               b2 == Row(it.action = "SCALE_REPLICAS" /\ TooFewReplicas(it),
                         "scale_to_zero_denied")
               b3 == Row(it.action = "SCALE_REPLICAS" /\ TooManyReplicas(it),
                         "blast_radius_exceeded")
               b4 == Row(it.action = "PATCH_MEMORY_LIMIT"
                           /\ (it.memory = Absent \/ it.memory > MaxMemory),
                         "blast_radius_exceeded")
               b5 == Row(d.impactPct > 100, "blast_radius_exceeded")
    <3>1. ItemRows(d, ns, it) = <<r1, r2, r3, r4, r5, r6>> \o <<b1, b2, b3, b4, b5>>
      BY DEF ItemRows, BlastRadiusRows
    <3>2. ~r1.when /\ ~r2.when /\ ~r3.when /\ ~r4.when /\ ~r5.when /\ ~r6.when
      BY <2>1 DEF Row
    <3>3. ~b1.when /\ ~b2.when /\ ~b3.when /\ ~b4.when /\ ~b5.when
      BY <2>2 DEF Row
    <3> HIDE DEF r1, r2, r3, r4, r5, r6, b1, b2, b3, b4, b5
    <3> QED
      BY <3>1, <3>2, <3>3, ElevenRowsSilent
  <2> QED
    BY <2>3 DEF ItemDenied
<1> QED
  BY <1>1, <1>2 DEF Allows, ItemsToTest

-----------------------------------------------------------------------------
\* A set of naturals that is not empty has a least member.
LEMMA LeastNatural ==
  ASSUME NEW T \in SUBSET Nat, T # {}
  PROVE  \E x \in T : \A y \in T : ~(y < x)
<1> DEFINE Less == {pair \in Nat \X Nat : pair[1] < pair[2]}
<1>1. OpToRel(<, Nat) = Less
  BY DEF OpToRel
<1>2. IsWellFoundedOn(Less, Nat)
  BY <1>1, NatLessThanWellFounded
<1>3. PICK x \in T : \A y \in T : <<y, x>> \notin Less
  <2> HIDE DEF Less
  <2> QED
    BY <1>2, WFMin
<1>4. \A y \in T : y < x => <<y, x>> \in Less
  OBVIOUS
<1> QED
  BY <1>3, <1>4

\* The reason is that of the first row that denies.
LEMMA FirstReasonIs ==
  ASSUME NEW rows, NEW len \in Nat, DOMAIN rows = 1..len,
         NEW n \in 1..len, rows[n].when, \A j \in 1..n - 1 : ~rows[j].when
  PROVE  FirstReason(rows) = rows[n].why
<1> DEFINE First(i) == rows[i].when /\ \A j \in 1..i - 1 : ~rows[j].when
<1>1. First(n)
  OBVIOUS
<1>2. ASSUME NEW i \in DOMAIN rows, First(i)
      PROVE  i = n
  <2>1. i < n => FALSE
    BY <1>2
  <2>2. n < i => FALSE
    BY <1>2
  <2> QED
    BY <2>1, <2>2
<1>3. (CHOOSE i \in DOMAIN rows : First(i)) = n
  BY <1>1, <1>2
<1> QED
  BY <1>3 DEF FirstReason

\* A table that denies has a first row that does.
LEMMA FirstReasonExists ==
  ASSUME NEW rows, NEW len \in Nat, DOMAIN rows = 1..len, Denies(rows)
  PROVE  \E n \in 1..len : /\ rows[n].when
                           /\ \A j \in 1..n - 1 : ~rows[j].when
                           /\ FirstReason(rows) = rows[n].why
<1> DEFINE T == {i \in 1..len : rows[i].when}
<1>1. T \in SUBSET Nat /\ T # {}
  BY DEF Denies
<1>2. PICK n \in T : \A i \in T : ~(i < n)
  BY <1>1, LeastNatural
<1>3. \A j \in 1..n - 1 : ~rows[j].when
  BY <1>2
<1> QED
  BY <1>2, <1>3, FirstReasonIs

LEMMA Joined ==
  ASSUME NEW S, NEW s \in Seq(S), NEW t \in Seq(S)
  PROVE  /\ DOMAIN (s \o t) = 1..Len(s) + Len(t)
         /\ \A i \in 1..Len(s) : (s \o t)[i] = s[i]
         /\ \A i \in 1..Len(t) : (s \o t)[Len(s) + i] = t[i]
<1>1. Len(s) \in Nat /\ Len(t) \in Nat
  OBVIOUS
<1>2. Len(s \o t) = Len(s) + Len(t) /\ s \o t \in Seq(S)
  OBVIOUS
<1>3. ASSUME NEW i \in 1..Len(s)
      PROVE  (s \o t)[i] = s[i]
  BY <1>1
<1>4. ASSUME NEW i \in 1..Len(t)
      PROVE  (s \o t)[Len(s) + i] = t[i]
  BY <1>1
<1> QED
  BY <1>2, <1>3, <1>4

LEMMA ElevenRows ==
  ASSUME NEW r1, NEW r2, NEW r3, NEW r4, NEW r5, NEW r6,
         NEW b1, NEW b2, NEW b3, NEW b4, NEW b5
  PROVE  LET rows == <<r1, r2, r3, r4, r5, r6>> \o <<b1, b2, b3, b4, b5>> IN
         /\ DOMAIN rows = 1..11
         /\ rows[1] = r1 /\ rows[2] = r2 /\ rows[3] = r3 /\ rows[4] = r4 /\ rows[5] = r5
         /\ rows[6] = r6 /\ rows[7] = b1 /\ rows[8] = b2 /\ rows[9] = b3 /\ rows[10] = b4
         /\ rows[11] = b5
<1> DEFINE R == {r1, r2, r3, r4, r5, r6, b1, b2, b3, b4, b5}
           own == <<r1, r2, r3, r4, r5, r6>>
           blast == <<b1, b2, b3, b4, b5>>
<1>0. own \in Seq(R) /\ blast \in Seq(R)
  OBVIOUS
<1>1. Len(own) = 6 /\ Len(blast) = 5
  OBVIOUS
<1>2. /\ DOMAIN (own \o blast) = 1..Len(own) + Len(blast)
      /\ \A i \in 1..Len(own) : (own \o blast)[i] = own[i]
      /\ \A i \in 1..Len(blast) : (own \o blast)[Len(own) + i] = blast[i]
  <2> HIDE DEF own, blast, R
  <2> QED
    BY <1>0, Joined
<1> DEFINE rows == own \o blast
<1>3. /\ DOMAIN rows = 1..11
      /\ rows[1] = own[1] /\ rows[2] = own[2] /\ rows[3] = own[3] /\ rows[4] = own[4]
      /\ rows[5] = own[5] /\ rows[6] = own[6]
      /\ rows[6 + 1] = blast[1] /\ rows[6 + 2] = blast[2] /\ rows[6 + 3] = blast[3]
      /\ rows[6 + 4] = blast[4] /\ rows[6 + 5] = blast[5]
  <2>1. /\ DOMAIN rows = 1..6 + 5
        /\ \A i \in 1..6 : rows[i] = own[i]
        /\ \A i \in 1..5 : rows[6 + i] = blast[i]
    <3> HIDE DEF own, blast
    <3> QED
      BY <1>1, <1>2
  <2> HIDE DEF own, blast, rows
  <2>2. DOMAIN rows = 1..11
    BY <2>1
  <2>3. /\ rows[1] = own[1] /\ rows[2] = own[2] /\ rows[3] = own[3]
        /\ rows[4] = own[4] /\ rows[5] = own[5] /\ rows[6] = own[6]
    BY <2>1
  <2>4. /\ rows[6 + 1] = blast[1] /\ rows[6 + 2] = blast[2] /\ rows[6 + 3] = blast[3]
        /\ rows[6 + 4] = blast[4] /\ rows[6 + 5] = blast[5]
    BY <2>1
  <2> QED
    BY <2>2, <2>3, <2>4
<1>4. /\ own[1] = r1 /\ own[2] = r2 /\ own[3] = r3 /\ own[4] = r4 /\ own[5] = r5 /\ own[6] = r6
      /\ blast[1] = b1 /\ blast[2] = b2 /\ blast[3] = b3 /\ blast[4] = b4 /\ blast[5] = b5
  OBVIOUS
<1> HIDE DEF own, blast
<1> QED
  BY <1>3, <1>4 DEF own, blast

LEMMA RowRead ==
  ASSUME NEW when, NEW why
  PROVE  Row(when, why).when = when /\ Row(when, why).why = why
  BY DEF Row

\* What the first row that denies an item tells of it.
LEMMA ItemReason ==
  ASSUME NEW d, NEW ns, NEW it, Denies(ItemRows(d, ns, it))
  PROVE  LET why == FirstReason(ItemRows(d, ns, it)) IN
         /\ why = "denied_cross_tenant" =>
              it.action \in AllowedActions /\ (it.ns # ns \/ ns \notin d.allowed)
         /\ why = "scale_to_zero_denied" <=>
              /\ it.action = "SCALE_REPLICAS" /\ d.pattern # "urgent"
              /\ it.ns = ns /\ ns # Absent /\ ns \in d.allowed
              /\ TooFewReplicas(it)
<1> DEFINE rows == ItemRows(d, ns, it)
           c1 == it.action \notin AllowedActions
           c2 == d.pattern = "urgent" /\ it.action \notin UrgentActions
           c3 == d.pattern = "deferred" /\ it.action \notin DeferredActions
           c4 == it.ns = Absent
           c5 == it.ns # ns
           c6 == it.ns \notin d.allowed
           c7 == it.action = "SCALE_REPLICAS" /\ it.replicas = Absent
           c8 == it.action = "SCALE_REPLICAS" /\ TooFewReplicas(it)
           scale == /\ it.action = "SCALE_REPLICAS" /\ d.pattern # "urgent"
                    /\ it.ns = ns /\ ns # Absent /\ ns \in d.allowed
                    /\ TooFewReplicas(it)
<1>1. /\ DOMAIN rows = 1..11
      /\ rows[1] = Row(c1, "denied_action_not_allowed")
      /\ rows[2] = Row(c2, "invalid_pattern_type")
      /\ rows[3] = Row(c3, "invalid_pattern_type")
      /\ rows[4] = Row(c4, "missing_target_namespace")
      /\ rows[5] = Row(c5, "denied_cross_tenant")
      /\ rows[6] = Row(c6, "denied_cross_tenant")
      /\ rows[7] = Row(c7, "blast_radius_exceeded")
      /\ rows[8] = Row(c8, "scale_to_zero_denied")
      /\ rows[9].why = "blast_radius_exceeded"
      /\ rows[10].why = "blast_radius_exceeded"
      /\ rows[11].why = "blast_radius_exceeded"
  BY ElevenRows DEF ItemRows, BlastRadiusRows, Row
<1> HIDE DEF rows
<1>2. /\ rows[1].when <=> c1
      /\ rows[2].when <=> c2
      /\ rows[3].when <=> c3
      /\ rows[4].when <=> c4
      /\ rows[5].when <=> c5
      /\ rows[6].when <=> c6
      /\ rows[7].when <=> c7
      /\ rows[8].when <=> c8
  <2> HIDE DEF c1, c2, c3, c4, c5, c6, c7, c8
  <2> QED
    BY <1>1, RowRead
<1>3. PICK n \in 1..11 : /\ rows[n].when
                         /\ \A j \in 1..n - 1 : ~rows[j].when
                         /\ FirstReason(rows) = rows[n].why
  BY <1>1, FirstReasonExists DEF rows
<1>4. FirstReason(rows) = "denied_cross_tenant" =>
        it.action \in AllowedActions /\ (it.ns # ns \/ ns \notin d.allowed)
  <2> SUFFICES ASSUME rows[n].why = "denied_cross_tenant"
               PROVE  it.action \in AllowedActions /\ (it.ns # ns \/ ns \notin d.allowed)
    BY <1>3
  <2>1. n = 5 \/ n = 6
    BY <1>1 DEF Row
  <2>2. ~rows[1].when /\ rows[n].when
    BY <1>3, <2>1
  <2> QED
    BY <1>2, <2>1, <2>2
<1>5. FirstReason(rows) = "scale_to_zero_denied" => scale
  <2> SUFFICES ASSUME rows[n].why = "scale_to_zero_denied"
               PROVE  scale
    BY <1>3
  <2>1. n = 8
    BY <1>1 DEF Row
  <2>2. rows[8].when /\ \A j \in 1..7 : ~rows[j].when
    BY <1>3, <2>1
  <2>3. ~c2 /\ ~c4 /\ ~c5 /\ ~c6 /\ c8
    BY <1>2, <2>2
  <2> QED
    BY <2>3 DEF UrgentActions
<1>6. scale => FirstReason(rows) = "scale_to_zero_denied"
  <2> SUFFICES ASSUME scale PROVE FirstReason(rows) = "scale_to_zero_denied"
    OBVIOUS
  <2>1. ~c1 /\ ~c2 /\ ~c3 /\ ~c4 /\ ~c5 /\ ~c6 /\ ~c7 /\ c8
    BY DEF AllowedActions, DeferredActions, TooFewReplicas
  <2>2. \A j \in 1..8 - 1 : ~rows[j].when
    <3> SUFFICES ASSUME NEW j \in 1..7 PROVE ~rows[j].when
      OBVIOUS
    <3>1. j = 1 \/ j = 2 \/ j = 3 \/ j = 4 \/ j = 5 \/ j = 6 \/ j = 7
      OBVIOUS
    <3> QED
      BY <1>2, <2>1, <3>1
  <2>3. rows[8].when /\ rows[8].why = "scale_to_zero_denied"
    <3>1. rows[8].why = "scale_to_zero_denied"
      BY <1>1 DEF Row
    <3> QED
      BY <1>2, <2>1, <3>1
  <2> QED
    <3>1. 11 \in Nat /\ 8 \in 1..11
      OBVIOUS
    <3> QED
      BY <1>1, <2>2, <2>3, <3>1, FirstReasonIs
<1> QED
  BY <1>4, <1>5, <1>6 DEF rows

\* The plan's own tests give other reasons than those of its items.
LEMMA PlanReason ==
  ASSUME NEW d, Denies(PlanRows(d))
  PROVE  FirstReason(PlanRows(d)) \notin {"denied_cross_tenant", "scale_to_zero_denied"}
<1> DEFINE rows == PlanRows(d)
<1>1. /\ DOMAIN rows = 1..3
      /\ rows[1].why = "invalid_pattern_type"
      /\ rows[2].why = "missing_verify_policy"
      /\ rows[3].why = "missing_rollback_path"
  BY DEF PlanRows, Row
<1> HIDE DEF rows
<1>2. PICK n \in 1..3 : FirstReason(rows) = rows[n].why
  BY <1>1, FirstReasonExists DEF rows
<1>3. n = 1 \/ n = 2 \/ n = 3
  OBVIOUS
<1> QED
  BY <1>1, <1>2, <1>3 DEF rows

\* The item that the reason is about is the first that is denied.
LEMMA FirstDeniedIs ==
  ASSUME NEW d, NEW ns, NEW len \in Nat, DOMAIN d.items = 1..len,
         NEW i \in 1..len, ItemDenied(d, ns, i), \A j \in 1..i - 1 : ~ItemDenied(d, ns, j)
  PROVE  FirstDenied(d, ns) = i
<1> DEFINE First(k) == ItemDenied(d, ns, k) /\ \A j \in 1..k - 1 : ~ItemDenied(d, ns, j)
<1>1. First(i)
  OBVIOUS
<1>2. ASSUME NEW k \in 1..len, First(k)
      PROVE  k = i
  <2>1. k < i => FALSE
    BY <1>2
  <2>2. i < k => FALSE
    BY <1>2
  <2> QED
    BY <2>1, <2>2
<1>3. (CHOOSE k \in 1..len : First(k)) = i
  BY <1>1, <1>2
<1> QED
  BY <1>3 DEF FirstDenied, ItemsToTest

LEMMA FirstDeniedExists ==
  ASSUME NEW d, NEW ns, NEW len \in Nat, DOMAIN d.items = 1..len,
         NEW k \in 1..len, ItemDenied(d, ns, k)
  PROVE  \E i \in 1..len : /\ ItemDenied(d, ns, i)
                           /\ \A j \in 1..i - 1 : ~ItemDenied(d, ns, j)
                           /\ FirstDenied(d, ns) = i
<1> DEFINE T == {i \in 1..len : ItemDenied(d, ns, i)}
<1>1. T \in SUBSET Nat /\ T # {}
  OBVIOUS
<1>2. PICK i \in T : \A j \in T : ~(j < i)
  BY <1>1, LeastNatural
<1>3. \A j \in 1..i - 1 : ~ItemDenied(d, ns, j)
  BY <1>2
<1> QED
  BY <1>2, <1>3, FirstDeniedIs

\* A denied scale is one of a plan that is otherwise in order up to it.
ScaledToZero(d, ns, i) ==
  /\ d.items[i].action = "SCALE_REPLICAS"
  /\ TooFewReplicas(d.items[i])
  /\ d.items[i].ns = ns /\ ns \in d.allowed
  /\ \A j \in 1..i - 1 : ~ItemDenied(d, ns, j)

\* A plan is denied for crossing tenants only if an item with a known action does,
\* and for scaling to zero exactly if an item does and nothing before it fails.
LEMMA ReasonIsOfAnItem ==
  ASSUME NEW d, NEW ns, WellFormed(d), ns # Absent, ~Allows(d, ns)
  PROVE  /\ Reason(d, ns) = "denied_cross_tenant" =>
              \E i \in DOMAIN d.items :
                /\ d.items[i].ns # ns \/ ns \notin d.allowed
                /\ d.items[i].action \in AllowedActions
         /\ Reason(d, ns) = "scale_to_zero_denied" <=>
              /\ d.verifyWindow > 0 /\ d.pattern = "deferred"
              /\ \E i \in DOMAIN d.items : ScaledToZero(d, ns, i)
<1>1. PICK len \in Nat : DOMAIN d.items = 1..len
  BY DEF WellFormed
<1>2. CASE Denies(PlanRows(d))
  <2>1. Reason(d, ns) \notin {"denied_cross_tenant", "scale_to_zero_denied"}
    BY <1>2, PlanReason DEF Reason
  <2>2. ~(/\ d.verifyWindow > 0 /\ d.pattern = "deferred"
          /\ \E i \in DOMAIN d.items : ScaledToZero(d, ns, i))
    <3> SUFFICES ASSUME d.verifyWindow > 0, d.pattern = "deferred", NEW i \in DOMAIN d.items
                 PROVE  FALSE
      OBVIOUS
    <3>1. d.items # <<>> /\ ~(d.verifyWindow <= 0)
      BY DEF WellFormed
    <3> QED
      BY <1>2, <3>1, PlanRowsPassed
  <2> QED
    BY <2>1, <2>2
<1>3. CASE ~Denies(PlanRows(d))
  <2>1. d.pattern \in {"urgent", "deferred"} /\ d.verifyWindow > 0
    BY <1>3, PlanRowsSilent DEF WellFormed
  <2>2. PICK i \in 1..len : /\ ItemDenied(d, ns, i)
                            /\ \A j \in 1..i - 1 : ~ItemDenied(d, ns, j)
                            /\ FirstDenied(d, ns) = i
    <3>1. PICK k \in 1..len : ItemDenied(d, ns, k)
      BY <1>1, <1>3 DEF Allows, ItemsToTest
    <3> QED
      BY <1>1, <3>1, FirstDeniedExists
  <2> DEFINE it == d.items[i]
  <2>3. Reason(d, ns) = FirstReason(ItemRows(d, ns, it))
    BY <1>3, <2>2 DEF Reason
  <2>4. Denies(ItemRows(d, ns, it))
    BY <2>2 DEF ItemDenied
  <2>5. /\ Reason(d, ns) = "denied_cross_tenant" =>
             it.action \in AllowedActions /\ (it.ns # ns \/ ns \notin d.allowed)
        /\ Reason(d, ns) = "scale_to_zero_denied" <=>
             /\ it.action = "SCALE_REPLICAS" /\ d.pattern # "urgent"
             /\ it.ns = ns /\ ns # Absent /\ ns \in d.allowed
             /\ TooFewReplicas(it)
    BY <2>3, <2>4, ItemReason
  <2>6. Reason(d, ns) = "scale_to_zero_denied" => ScaledToZero(d, ns, i)
    BY <2>2, <2>5 DEF ScaledToZero
  <2>7. ASSUME NEW k \in 1..len, ScaledToZero(d, ns, k), d.pattern = "deferred"
        PROVE  Reason(d, ns) = "scale_to_zero_denied"
    <3>1. ~(i < k)
      BY <2>2, <2>7 DEF ScaledToZero
    <3>2. CASE k = i
      BY <2>5, <2>7, <3>2 DEF ScaledToZero
    <3>3. CASE k < i
      <4>1. ~Denies(ItemRows(d, ns, d.items[k]))
        BY <2>2, <3>3 DEF ItemDenied
      <4>2. ~Denies(BlastRadiusRows(d, d.items[k]))
        BY <4>1, ItemRowsSilent
      <4>3. ~TooFewReplicas(d.items[k])
        BY <2>7, <4>2, BlastRadiusRowsSilent DEF ScaledToZero, TooFewReplicas
      <4> QED
        BY <2>7, <4>3 DEF ScaledToZero
    <3> QED
      BY <3>1, <3>2, <3>3
  <2> QED
    BY <1>1, <2>1, <2>2, <2>5, <2>6, <2>7
<1> QED
  BY <1>2, <1>3
=============================================================================
