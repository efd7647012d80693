-------------------------- MODULE ScanPipelineProofs --------------------------
(***************************************************************************)
(* What holds of ScanPipeline for every address space, every policy, every  *)
(* list of targets and every report: the types of a selection, that nothing *)
(* which the policy refuses is selected or given to Nmap, that a member     *)
(* stays inside what was registered, that a launch is refused only when it  *)
(* is hopeless, that the worker decides what the API did, and that what is  *)
(* stored and announced is what the report said.                            *)
(***************************************************************************)
EXTENDS ScanPipeline, AssessmentProofs

(***************************************************************************)
(* Blocks                                                                  *)
(***************************************************************************)
LEMMA BlockFields ==
  ASSUME NEW n \in Blocks
  PROVE  /\ n.version \in {4, 6} /\ n.first \in Nat /\ n.size \in Nat \ {0}
         /\ LastAddress(n) \in Nat /\ n.first <= LastAddress(n)
<1>1. n \in [version : {4, 6}, first : Addresses, size : Sizes]
  BY DEF Blocks
<1>2. n.version \in {4, 6} /\ n.first \in Nat /\ n.size \in Nat \ {0}
  BY <1>1, AddressAssumption
<1>3. QED
  BY <1>2 DEF LastAddress

\* Containment is inclusion of the addresses that two blocks stand for.
LEMMA ContainmentCovers ==
  ASSUME NEW n \in Blocks, NEW m \in Blocks
  PROVE  ContainedIn(n, m) <=> Covers(n) \subseteq Covers(m)
<1> USE BlockFields
<1>1. ASSUME ContainedIn(n, m) PROVE Covers(n) \subseteq Covers(m)
  <2>1. n.version = m.version /\ m.first <= n.first /\ LastAddress(n) <= LastAddress(m)
    BY <1>1 DEF ContainedIn
  <2>2. n.first..LastAddress(n) \subseteq m.first..LastAddress(m)
    BY <2>1
  <2>3. QED
    BY <2>1, <2>2 DEF Covers
<1>2. ASSUME Covers(n) \subseteq Covers(m) PROVE ContainedIn(n, m)
  <2>1. n.first \in n.first..LastAddress(n) /\ LastAddress(n) \in n.first..LastAddress(n)
    OBVIOUS
  <2>2. <<n.version, n.first>> \in Covers(m) /\ <<n.version, LastAddress(n)>> \in Covers(m)
    BY <1>2, <2>1 DEF Covers
  <2>3. PICK a \in m.first..LastAddress(m) : <<n.version, n.first>> = <<m.version, a>>
    BY <2>2 DEF Covers
  <2>4. PICK b \in m.first..LastAddress(m) : <<n.version, LastAddress(n)>> = <<m.version, b>>
    BY <2>2 DEF Covers
  <2>5. n.version = m.version /\ n.first = a /\ LastAddress(n) = b
    BY <2>3, <2>4
  <2>6. QED
    BY <2>5 DEF ContainedIn
<1>3. QED
  BY <1>1, <1>2

\* Blocks overlap exactly when they share an address; one direction is needed.
LEMMA DisjointCovers ==
  ASSUME NEW n \in Blocks, NEW m \in Blocks, ~Overlaps(n, m)
  PROVE  Covers(n) \cap Covers(m) = {}
<1> USE BlockFields
<1>1. SUFFICES ASSUME NEW c \in Covers(n), c \in Covers(m) PROVE FALSE
  OBVIOUS
<1>2. PICK a \in n.first..LastAddress(n) : c = <<n.version, a>>
  BY DEF Covers
<1>3. PICK b \in m.first..LastAddress(m) : c = <<m.version, b>>
  BY <1>1 DEF Covers
<1>4. n.version = m.version /\ a = b
  BY <1>2, <1>3
<1>5. QED
  BY <1>4 DEF Overlaps

\* What a policy permits, said of addresses.
LEMMA PermittedCovers ==
  ASSUME NEW p \in PolicyType, NEW n \in Blocks, Permitted(p, n)
  PROVE  /\ \A m \in Forbidden(p) : Covers(n) \cap Covers(m) = {}
         /\ p.allowPrivate \/ \A m \in Private : ~(Covers(n) \subseteq Covers(m))
<1>1. Forbidden(p) \subseteq Blocks /\ Private \subseteq Blocks
  BY AddressAssumption DEF Forbidden, PolicyType
<1>2. \A m \in Forbidden(p) : Covers(n) \cap Covers(m) = {}
  BY <1>1, DisjointCovers DEF Permitted
<1>3. p.allowPrivate \/ \A m \in Private : ~(Covers(n) \subseteq Covers(m))
  BY <1>1, ContainmentCovers DEF Permitted, IsPrivate
<1>4. QED
  BY <1>2, <1>3

(***************************************************************************)
(* Lists of targets                                                        *)
(***************************************************************************)
LEMMA NormaliseType ==
  ASSUME NEW text \in Texts
  PROVE  Normalise(text) \in Blocks \cup {Invalid}
<1>1. CASE text = Invalid
  BY <1>1 DEF Normalise
<1>2. CASE text # Invalid
  <2>1. text \in [version : {4, 6}, first : Addresses, size : Sizes, prefixed : BOOLEAN]
    BY <1>2 DEF Texts
  <2>2. text.version \in {4, 6} /\ text.first \in Addresses /\ text.size \in Sizes
    BY <2>1
  <2>3. text.first \in Nat /\ 1 \in Sizes
    BY <2>2, AddressAssumption
  <2>4. CASE ~text.prefixed
    <3>1. Normalise(text) = [version |-> text.version, first |-> text.first, size |-> 1]
      BY <1>2, <2>4 DEF Normalise
    <3>2. text.first % 1 = 0
      BY <2>3
    <3>3. QED
      BY <2>2, <2>3, <3>1, <3>2 DEF Blocks
  <2>5. CASE text.prefixed /\ text.first % text.size # 0
    BY <1>2, <2>5 DEF Normalise
  <2>6. CASE text.prefixed /\ text.first % text.size = 0
    <3>1. Normalise(text) = [version |-> text.version, first |-> text.first, size |-> text.size]
      BY <1>2, <2>6 DEF Normalise
    <3>2. QED
      BY <2>2, <2>6, <3>1 DEF Blocks
  <2>7. QED
    BY <2>1, <2>4, <2>5, <2>6
<1>3. QED
  BY <1>1, <1>2

\* A list without its repetitions has the same kind of members, and no other.
LEMMA DistinctType ==
  ASSUME NEW B, NEW list \in Seq(B)
  PROVE  Distinct(list) \in Seq(B) /\ RangeOf(Distinct(list)) \subseteq RangeOf(list)
<1> DEFINE first == {i \in DOMAIN list : \A j \in DOMAIN list : j < i => list[j] # list[i]}
<1>1. first \in SUBSET (DOMAIN list) /\ Distinct(list) = Subsequence(list, first)
  BY DEF Distinct
<1> HIDE DEF first
<1>2. QED
  BY <1>1, SubsequenceType

LEMMA CanonicalType ==
  ASSUME NEW texts \in Seq(Texts), Invalid \notin RangeOf(Canonical(texts))
  PROVE  Canonical(texts) \in Seq(Blocks)
<1>1. DOMAIN texts = 1..Len(texts) /\ Len(texts) \in Nat /\ \A i \in 1..Len(texts) : texts[i] \in Texts
  OBVIOUS
<1>2. \A i \in 1..Len(texts) : Normalise(texts[i]) \in Blocks \cup {Invalid}
  BY <1>1, NormaliseType
<1>3. Canonical(texts) = [i \in 1..Len(texts) |-> Normalise(texts[i])]
  BY <1>1 DEF Canonical
<1>4. \A i \in 1..Len(texts) : Normalise(texts[i]) # Invalid
  BY <1>3 DEF RangeOf
<1>5. QED
  BY <1>1, <1>2, <1>3, <1>4

(***************************************************************************)
(* The addresses of a list of blocks                                       *)
(***************************************************************************)
AddressesOf(list) == FoldLeft(LAMBDA sum, n : sum + n.size, 0, list)

\* The function by which the library defines the fold.
SumFold(list) ==
  CHOOSE f : f = [S \in SUBSET (DOMAIN list) |->
                    IF S = {} THEN 0 ELSE f[S \ {Max(S)}] + list[Max(S)].size]

LEMMA AddressesUnfold ==
  ASSUME NEW list
  PROVE  AddressesOf(list) = SumFold(list)[DOMAIN list]
BY DEF AddressesOf, SumFold, FoldLeft, MapThenFoldSet

\* The sums of the prefixes of a list, one block at a time.
LEMMA SumFoldSteps ==
  ASSUME NEW list \in Seq(Blocks)
  PROVE  \E h \in [0..Len(list) -> Nat] :
           /\ h[0] = 0
           /\ \A k \in 0..(Len(list) - 1) : h[k + 1] = h[k] + list[k + 1].size
           /\ h[Len(list)] = AddressesOf(list)
<1> DEFINE N == Len(list)
           step == [p \in (1..N) \X Nat |-> p[2] + list[p[1]].size]
<1>1. N \in Nat /\ DOMAIN list = 1..N /\ \A i \in 1..N : list[i].size \in Nat
  BY BlockFields
<1>2. step \in [(1..N) \X Nat -> Nat]
  BY <1>1
<1>3. PICK f \in [SUBSET (1..N) -> Nat] : IsFold(f, 0, N, step)
  <2>1. 0 \in Nat
    OBVIOUS
  <2> HIDE DEF step, N
  <2>2. QED
    BY <1>1, <1>2, <2>1, FoldExists
<1> HIDE DEF N
<1>4. \A S \in SUBSET (1..N) : S # {} => Max(S) \in 1..N
  BY <1>1, MaxIsLargest
<1>5. f = [S \in SUBSET (DOMAIN list) |->
             IF S = {} THEN 0 ELSE f[S \ {Max(S)}] + list[Max(S)].size]
  <2>1. ASSUME NEW S \in SUBSET (1..N)
        PROVE  f[S] = IF S = {} THEN 0 ELSE f[S \ {Max(S)}] + list[Max(S)].size
    <3>1. CASE S = {}
      BY <1>3, <3>1 DEF IsFold
    <3>2. CASE S # {}
      <4>1. Max(S) \in 1..N /\ f[S \ {Max(S)}] \in Nat
        BY <1>4, <3>2
      <4>2. step[<<Max(S), f[S \ {Max(S)}]>>] = f[S \ {Max(S)}] + list[Max(S)].size
        BY <4>1
      <4> HIDE DEF step
      <4>3. QED
        BY <1>3, <3>2, <4>2 DEF IsFold
    <3>3. QED
      BY <3>1, <3>2
  <2>2. QED
    BY <1>1, <2>1
<1>6. SumFold(list) = [S \in SUBSET (DOMAIN list) |->
             IF S = {} THEN 0 ELSE SumFold(list)[S \ {Max(S)}] + list[Max(S)].size]
  BY <1>5 DEF SumFold
<1> DEFINE s == SumFold(list)
           h == [k \in 0..N |-> s[1..k]]
<1>7. s[{}] = 0 /\ 1..0 = {}
  BY <1>6
<1> HIDE DEF s
<1>8. ASSUME NEW k \in 0..(N - 1)
      PROVE  s[1..(k + 1)] = s[1..k] + list[k + 1].size
  <2>1. k \in Nat /\ 1..(k + 1) \in SUBSET (1..N) /\ k + 1 \in 1..(k + 1)
    BY <1>1
  <2>2. Max(1..(k + 1)) = k + 1 /\ (1..(k + 1)) \ {k + 1} = 1..k
    BY <2>1, MaxOfSegment
  <2>3. QED
    BY <1>1, <1>6, <2>1, <2>2 DEF s
<1>9. \A k \in 0..N : s[1..k] \in Nat
  <2> DEFINE T == {k \in Nat : k <= N => s[1..k] \in Nat}
  <2>1. 0 \in T
    BY <1>7
  <2>2. ASSUME NEW k \in Nat, k \in T PROVE k + 1 \in T
    <3>1. SUFFICES ASSUME k + 1 <= N PROVE s[1..(k + 1)] \in Nat
      OBVIOUS
    <3>2. k \in 0..(N - 1) /\ k + 1 \in 1..N /\ s[1..k] \in Nat
      BY <1>1, <2>2, <3>1
    <3>3. QED
      BY <1>1, <1>8, <3>2
  <2>3. Nat \subseteq T
    <3> HIDE DEF T
    <3>1. QED
      BY <2>1, <2>2, NatSetInduction
  <2>4. QED
    BY <2>3
<1>10. h \in [0..N -> Nat] /\ h[0] = 0
  BY <1>1, <1>7, <1>9
<1>11. \A k \in 0..(N - 1) : h[k + 1] = h[k] + list[k + 1].size
  BY <1>1, <1>8
<1>12. h[N] = AddressesOf(list)
  BY <1>1, AddressesUnfold DEF s
<1>13. QED
  BY <1>10, <1>11, <1>12 DEF N

\* What was counted of a list so far are the addresses of that prefix.
LEMMA PrefixSums ==
  ASSUME NEW list \in Seq(Blocks)
  PROVE  \E h \in [0..Len(list) -> Nat] :
           /\ h[0] = 0
           /\ \A k \in 0..(Len(list) - 1) : h[k + 1] = h[k] + list[k + 1].size
           /\ \A k \in 0..Len(list) : h[k] = AddressesOf(SubSeq(list, 1, k))
<1> DEFINE N == Len(list)
<1>1. PICK h \in [0..N -> Nat] :
        /\ h[0] = 0
        /\ \A k \in 0..(N - 1) : h[k + 1] = h[k] + list[k + 1].size
  BY SumFoldSteps
<1>2. ASSUME NEW k \in 0..N PROVE h[k] = AddressesOf(SubSeq(list, 1, k))
  <2> DEFINE prefix == SubSeq(list, 1, k)
  <2>1. prefix \in Seq(Blocks) /\ Len(prefix) = k /\ \A i \in 1..k : prefix[i] = list[i]
    OBVIOUS
  <2> HIDE DEF prefix
  <2>2. PICK g \in [0..k -> Nat] :
          /\ g[0] = 0
          /\ \A i \in 0..(k - 1) : g[i + 1] = g[i] + prefix[i + 1].size
          /\ g[k] = AddressesOf(prefix)
    BY <2>1, SumFoldSteps
  <2> DEFINE T == {i \in Nat : i <= k => g[i] = h[i]}
  <2>3. 0 \in T
    BY <1>1, <2>2
  <2>4. ASSUME NEW i \in Nat, i \in T PROVE i + 1 \in T
    <3>1. SUFFICES ASSUME i + 1 <= k PROVE g[i + 1] = h[i + 1]
      OBVIOUS
    <3>2. /\ i \in 0..(k - 1) /\ i \in 0..(N - 1) /\ i + 1 \in 1..k /\ g[i] = h[i]
      BY <2>4, <3>1
    <3>3. QED
      BY <1>1, <2>1, <2>2, <3>2
  <2>5. Nat \subseteq T
    <3> HIDE DEF T
    <3>1. QED
      BY <2>3, <2>4, NatSetInduction
  <2>6. g[k] = h[k]
    BY <2>5
  <2>7. QED
    BY <2>2, <2>6 DEF prefix
<1>3. QED
  BY <1>1, <1>2

\* One more block adds its size.
LEMMA AddressesOfAppend ==
  ASSUME NEW list \in Seq(Blocks), NEW n \in Blocks
  PROVE  AddressesOf(Append(list, n)) = AddressesOf(list) + n.size
<1> DEFINE more == Append(list, n)
           N == Len(list)
<1>1. /\ N \in Nat /\ more \in Seq(Blocks) /\ Len(more) = N + 1 /\ more[N + 1] = n
      /\ SubSeq(more, 1, N) = list /\ SubSeq(more, 1, N + 1) = more
  OBVIOUS
<1>2. N \in 0..(Len(more) - 1) /\ N + 1 \in 0..Len(more) /\ N \in 0..Len(more)
  BY <1>1
<1> HIDE DEF more, N
<1>3. QED
  BY <1>1, <1>2, PrefixSums DEF more

LEMMA AddressesOfEmpty == AddressesOf(<<>>) = 0
<1> DEFINE none == <<>>
<1>1. none \in Seq(Blocks) /\ Len(none) = 0 /\ 0 \in 0..0
  OBVIOUS
<1> HIDE DEF none
<1>2. AddressesOf(none) = 0
  BY <1>1, SumFoldSteps
<1>3. QED
  BY <1>2 DEF none

LEMMA AddressesAreNat ==
  ASSUME NEW list \in Seq(Blocks), NEW k \in 0..Len(list)
  PROVE  AddressesOf(list) \in Nat /\ AddressesOf(SubSeq(list, 1, k)) \in Nat
<1>1. Len(list) \in 0..Len(list) /\ SubSeq(list, 1, Len(list)) = list
  OBVIOUS
<1>2. QED
  BY <1>1, PrefixSums

\* A prefix has no more addresses than the whole.
LEMMA AddressesOfPrefix ==
  ASSUME NEW list \in Seq(Blocks), NEW k \in 0..Len(list)
  PROVE  AddressesOf(SubSeq(list, 1, k)) <= AddressesOf(list)
<1> DEFINE N == Len(list)
<1>1. PICK h \in [0..N -> Nat] :
        /\ \A i \in 0..(N - 1) : h[i + 1] = h[i] + list[i + 1].size
        /\ \A i \in 0..N : h[i] = AddressesOf(SubSeq(list, 1, i))
  BY PrefixSums
<1>2. N \in Nat /\ SubSeq(list, 1, N) = list /\ \A i \in 1..N : list[i].size \in Nat
  BY BlockFields
<1> HIDE DEF N
<1> DEFINE T == {i \in Nat : k + i <= N => h[k] <= h[k + i]}
<1>3. 0 \in T
  BY <1>2 DEF N
<1>4. ASSUME NEW i \in Nat, i \in T PROVE i + 1 \in T
  <2>1. SUFFICES ASSUME k + (i + 1) <= N PROVE h[k] <= h[k + (i + 1)]
    OBVIOUS
  <2>2. /\ k + i \in 0..(N - 1) /\ k + (i + 1) = (k + i) + 1 /\ k + i + 1 \in 1..N
        /\ h[k] <= h[k + i] /\ h[k] \in Nat /\ h[k + i] \in Nat
    BY <1>2, <1>4, <2>1 DEF N
  <2>3. h[(k + i) + 1] = h[k + i] + list[(k + i) + 1].size /\ list[(k + i) + 1].size \in Nat
    BY <1>1, <1>2, <2>2
  <2>4. QED
    BY <2>2, <2>3
<1>5. Nat \subseteq T
  <2> HIDE DEF T
  <2>1. QED
    BY <1>3, <1>4, NatSetInduction
<1>6. N - k \in Nat /\ k + (N - k) = N
  BY <1>2 DEF N
<1>7. h[k] <= h[N]
  BY <1>5, <1>6
<1>8. QED
  BY <1>1, <1>2, <1>7 DEF N

(***************************************************************************)
(* The inductive invariant                                                 *)
(***************************************************************************)
Selecting == {"selecting", "reselecting", "scanning"}

\* A target that cannot be scanned even alone.
Hopeless(n) == ~Permitted(policy, n) \/ n.size > policy.ceiling

Obeys == phase \in Selecting =>
  /\ \A n \in RangeOf(accepted) : Permitted(policy, n)
  /\ total <= policy.ceiling

Inside ==
  /\ phase \in Selecting => RangeOf(todo) \cup RangeOf(accepted) \subseteq asked
  /\ phase = "queued" => RangeOf(answered) \subseteq asked
  /\ phase \in {"reselecting", "scanning"} => asked = RangeOf(answered)
  /\ member => \A n \in asked : \E r \in allowed : ContainedIn(n, r)

\* What the loop has left out so far it would have left out of any list.
Tried ==
  /\ phase = "selecting" /\ accepted = <<>> =>
       total = 0 /\ \A n \in asked : n \in RangeOf(todo) \/ Hopeless(n)
  /\ phase = "refused" => \A n \in asked : Hopeless(n)

Inv == TypeOK /\ Obeys /\ Inside /\ Tried

LEMMA Policy ==
  ASSUME TypeOK
  PROVE  policy \in PolicyType /\ policy.ceiling \in Nat \ {0}
<1>1. policy \in PolicyType
  BY PipelineAssumption DEF TypeOK
<1>2. QED
  BY <1>1 DEF PolicyType

LEMMA InvInit == Init => Inv
<1> SUFFICES ASSUME Init PROVE Inv
  OBVIOUS
<1>1. <<>> \in Seq(Blocks)
  OBVIOUS
<1>2. Default \in [profile : Profiles, ports : PortSpecs]
  BY DEF Default, Profiles, PortSpecs
<1>3. NoCommand \in [targets : Seq(Blocks), versions : BOOLEAN,
                     ports : {"explicit", "registered", "common"}]
  BY <1>1 DEF NoCommand
<1>4. TypeOK
  BY <1>1, <1>2, <1>3 DEF Init, TypeOK, Phases
<1>5. Obeys /\ Inside /\ Tried
  BY DEF Init, Obeys, Inside, Tried, Selecting
<1>6. QED
  BY <1>4, <1>5 DEF Inv

\* A selection that begins.
LEMMA SelectBegins ==
  ASSUME TypeOK, NEW list \in Seq(Blocks), Select(list), UNCHANGED policy
  PROVE  /\ asked' \subseteq Blocks /\ todo' \in Seq(Blocks) /\ accepted' \in Seq(Blocks)
         /\ asked' = RangeOf(todo') /\ asked' = RangeOf(list) /\ accepted' = <<>> /\ total' = 0
         /\ Obeys' /\ (phase' \in Selecting => RangeOf(todo') \cup RangeOf(accepted') \subseteq asked')
         /\ (phase' # "refused" => Tried')
<1>1. asked' = RangeOf(list) /\ todo' = list /\ accepted' = <<>> /\ total' = 0
  BY DEF Select
<1>2. RangeOf(list) \subseteq Blocks
  BY DEF RangeOf
<1>3. policy'.ceiling \in Nat
  BY Policy
<1>4. Obeys'
  BY <1>1, <1>3, RangeOfEmpty DEF Obeys
<1>5. QED
  BY <1>1, <1>2, <1>4, RangeOfEmpty DEF Tried

LEMMA LaunchStep ==
  ASSUME Inv, Launch
  PROVE  Inv'
<1>0. TypeOK
  BY DEF Inv
<1>1. ASSUME NEW list \in [1..Cardinality(registered) -> registered], LaunchRegistered(list)
      PROVE  Inv'
  <2>1. registered \subseteq Registrable /\ registered \subseteq Blocks
    BY <1>0, PipelineAssumption DEF TypeOK
  <2>2. Cardinality(registered) \in Nat
    BY <2>1, PipelineAssumption, FS_Subset, FS_CardinalityType
  <2>3. list \in Seq(Blocks)
    BY <2>1, <2>2
  <2>4. /\ phase' = "selecting" /\ member' \in BOOLEAN /\ options' \in Options
        /\ allowed' = registered /\ Select(list) /\ decided' = policy
        /\ UNCHANGED <<registered, policy, answered, command>>
        /\ RangeOf(list) = registered
    BY <1>1 DEF LaunchRegistered, outcome
  <2>5. /\ asked' \subseteq Blocks /\ todo' \in Seq(Blocks) /\ accepted' \in Seq(Blocks)
        /\ total' = 0 /\ asked' = registered
        /\ Obeys' /\ RangeOf(todo') \cup RangeOf(accepted') \subseteq asked' /\ Tried'
    BY <1>0, <2>3, <2>4, SelectBegins DEF Selecting
  <2>6. TypeOK'
    BY <1>0, <2>1, <2>4, <2>5, PipelineAssumption DEF TypeOK, Phases
  <2>7. \A n \in Blocks : ContainedIn(n, n)
    BY BlockFields DEF ContainedIn
  <2>8. Inside'
    BY <2>1, <2>4, <2>5, <2>7 DEF Inside
  <2>9. QED
    BY <2>5, <2>6, <2>8 DEF Inv
<1>2. ASSUME NEW texts \in Requested, NEW isMember \in BOOLEAN, LaunchInline(texts, isMember)
      PROVE  Inv'
  <2> DEFINE list == Distinct(Canonical(texts))
  <2>1. texts \in Seq(Texts)
    BY PipelineAssumption
  <2>2. Canonical(texts) \in Seq(Blocks)
    BY <1>2, <2>1, CanonicalType DEF LaunchInline
  <2>3. list \in Seq(Blocks) /\ RangeOf(list) \subseteq RangeOf(Canonical(texts))
    BY <2>2, DistinctType
  <2>4. /\ phase' = "selecting" /\ member' = isMember /\ options' \in Options
        /\ allowed' = registered /\ Select(list) /\ decided' = policy
        /\ UNCHANGED <<registered, policy, answered, command>>
        /\ \A n \in RangeOf(Canonical(texts)) : MayName(n, isMember)
    BY <1>2 DEF LaunchInline, outcome
  <2> HIDE DEF list
  <2>5. /\ asked' \subseteq Blocks /\ todo' \in Seq(Blocks) /\ accepted' \in Seq(Blocks)
        /\ total' = 0 /\ asked' = RangeOf(list)
        /\ Obeys' /\ RangeOf(todo') \cup RangeOf(accepted') \subseteq asked' /\ Tried'
    BY <1>0, <2>3, <2>4, SelectBegins DEF Selecting
  <2>6. TypeOK'
    BY <1>0, <2>4, <2>5, PipelineAssumption DEF TypeOK, Phases
  <2>7. Inside'
    BY <2>3, <2>4, <2>5 DEF Inside, MayName
  <2>8. QED
    BY <2>5, <2>6, <2>7 DEF Inv
<1>3. QED
  BY <1>1, <1>2 DEF Launch

LEMMA ConsiderStep ==
  ASSUME Inv, Consider
  PROVE  Inv'
<1> DEFINE n == Head(todo)
<1>0. /\ TypeOK /\ Obeys /\ Inside /\ Tried
      /\ todo \in Seq(Blocks) /\ accepted \in Seq(Blocks) /\ total \in Nat
      /\ policy.ceiling \in Nat
  BY Policy DEF Inv, TypeOK
<1>1. /\ phase \in {"selecting", "reselecting"} /\ todo # <<>>
      /\ todo' = Tail(todo)
      /\ \/ /\ Permitted(policy, n) /\ Fits(n)
            /\ accepted' = Append(accepted, n) /\ total' = total + n.size
         \/ /\ ~(Permitted(policy, n) /\ Fits(n))
            /\ UNCHANGED <<accepted, total>>
      /\ UNCHANGED <<registered, policy, phase, decision, asked, outcome>>
  BY DEF Consider
<1>2. n \in Blocks /\ todo' \in Seq(Blocks) /\ RangeOf(todo) = RangeOf(todo') \cup {n}
  BY <1>0, <1>1, RangeOfTail
<1>3. n.size \in Nat
  BY <1>2, BlockFields
<1> HIDE DEF n
<1>4. /\ accepted' \in Seq(Blocks) /\ total' \in Nat /\ total' <= policy.ceiling
      /\ \/ RangeOf(accepted') = RangeOf(accepted)
         \/ RangeOf(accepted') = RangeOf(accepted) \cup {n} /\ Permitted(policy, n)
  <2>1. CASE UNCHANGED <<accepted, total>>
    BY <1>0, <1>1, <2>1 DEF Obeys, Selecting
  <2>2. CASE /\ Permitted(policy, n) /\ Fits(n)
             /\ accepted' = Append(accepted, n) /\ total' = total + n.size
    BY <1>0, <1>2, <1>3, <2>2, RangeOfAppend DEF Fits
  <2>3. QED
    BY <1>1, <2>1, <2>2
<1>5. TypeOK'
  BY <1>0, <1>1, <1>2, <1>4 DEF TypeOK, decision, outcome
<1>6. Obeys'
  BY <1>0, <1>1, <1>4 DEF Obeys, Selecting
<1>7. Inside'
  BY <1>0, <1>1, <1>2, <1>4 DEF Inside, Selecting, decision
<1>8. Tried'
  <2> SUFFICES ASSUME phase = "selecting", accepted' = <<>>
               PROVE  total' = 0 /\ \A m \in asked : m \in RangeOf(todo') \/ Hopeless(m)
    BY <1>1 DEF Tried, Hopeless
  <2>1. ~(Permitted(policy, n) /\ Fits(n)) /\ UNCHANGED <<accepted, total>>
    BY <1>0, <1>1, <1>2, RangeOfAppend
  <2>2. total = 0 /\ \A m \in asked : m \in RangeOf(todo) \/ Hopeless(m)
    BY <1>0, <2>1 DEF Tried
  <2>3. Hopeless(n)
    BY <1>0, <1>3, <2>1, <2>2 DEF Hopeless, Fits
  <2>4. QED
    BY <1>2, <2>1, <2>2, <2>3
<1>9. QED
  BY <1>5, <1>6, <1>7, <1>8 DEF Inv
LEMMA WorkStep ==
  ASSUME Inv, \/ Refuse \/ Enqueue \/ Claim \/ Reject \/ Build \/ NmapFails
  PROVE  Inv'
<1>0. TypeOK /\ Obeys /\ Inside /\ Tried
  BY DEF Inv
<1>1. CASE Refuse
  <2>1. /\ phase = "selecting" /\ todo = <<>> /\ accepted = <<>> /\ phase' = "refused"
        /\ UNCHANGED <<registered, policy, decision, selection, outcome>>
    BY <1>1 DEF Refuse
  <2>2. TypeOK'
    BY <1>0, <2>1 DEF TypeOK, Phases, decision, selection, outcome
  <2>3. Obeys' /\ Inside'
    BY <1>0, <2>1 DEF Obeys, Inside, Selecting, decision, selection
  <2>4. Tried'
    BY <1>0, <2>1, RangeOfEmpty DEF Tried, Hopeless, selection
  <2>5. QED
    BY <2>2, <2>3, <2>4 DEF Inv
<1>2. CASE Enqueue
  <2>1. /\ phase = "selecting" /\ phase' = "queued" /\ answered' = accepted
        /\ UNCHANGED <<registered, policy, member, options, allowed, decided, selection, outcome>>
    BY <1>2 DEF Enqueue
  <2>2. TypeOK'
    BY <1>0, <2>1 DEF TypeOK, Phases, selection, outcome
  <2>3. Obeys' /\ Inside' /\ Tried'
    BY <1>0, <2>1 DEF Obeys, Inside, Tried, Selecting, selection
  <2>4. QED
    BY <2>2, <2>3 DEF Inv
<1>3. CASE Claim
  <2>1. /\ phase = "queued" /\ phase' = "reselecting" /\ Select(answered)
        /\ UNCHANGED <<registered, policy, decision, outcome>>
    BY <1>3 DEF Claim
  <2>2. answered \in Seq(Blocks) /\ answered' = answered
    BY <1>0, <2>1 DEF TypeOK, decision
  <2>3. /\ asked' \subseteq Blocks /\ todo' \in Seq(Blocks) /\ accepted' \in Seq(Blocks)
        /\ asked' = RangeOf(answered) /\ total' = 0
        /\ Obeys' /\ RangeOf(todo') \cup RangeOf(accepted') \subseteq asked' /\ Tried'
    BY <1>0, <2>1, <2>2, SelectBegins DEF Selecting
  <2>4. TypeOK'
    BY <1>0, <2>1, <2>3 DEF TypeOK, Phases, decision, outcome
  <2>5. Inside'
    BY <1>0, <2>1, <2>2, <2>3 DEF Inside, decision
  <2>6. QED
    BY <2>3, <2>4, <2>5 DEF Inv
<1>4. CASE Reject \/ NmapFails
  <2>1. /\ phase \in Selecting /\ phase' = "failed"
        /\ UNCHANGED <<registered, policy, decision, selection, outcome>>
    BY <1>4 DEF Reject, NmapFails, Selecting
  <2>2. TypeOK'
    BY <1>0, <2>1 DEF TypeOK, Phases, decision, selection, outcome
  <2>3. Obeys' /\ Inside' /\ Tried'
    BY <1>0, <2>1 DEF Obeys, Inside, Tried, Selecting, decision, selection
  <2>4. QED
    BY <2>2, <2>3 DEF Inv
<1>5. CASE Build
  <2>1. /\ phase = "reselecting" /\ phase' = "scanning"
        /\ command' = [targets |-> accepted, versions |-> DetectsVersions(options.profile),
                       ports |-> PortSelection(options)]
        /\ UNCHANGED <<registered, policy, decision, selection, results>>
    BY <1>5 DEF Build
  <2>2. command' \in [targets : Seq(Blocks), versions : BOOLEAN,
                      ports : {"explicit", "registered", "common"}]
    BY <1>0, <2>1 DEF TypeOK, DetectsVersions, PortSelection
  <2>3. TypeOK'
    BY <1>0, <2>1, <2>2 DEF TypeOK, Phases, decision, selection
  <2>4. Obeys' /\ Inside' /\ Tried'
    BY <1>0, <2>1 DEF Obeys, Inside, Tried, Selecting, decision, selection
  <2>5. QED
    BY <2>3, <2>4 DEF Inv
<1>6. QED
  BY <1>1, <1>2, <1>3, <1>4, <1>5

\* A scan that ends leaves nothing to the next one.
LEMMA ForgetStep ==
  ASSUME Inv, Forget, phase' \in {"idle", "completed", "failed"}, UNCHANGED <<registered, policy>>
  PROVE  Inv'
<1>1. /\ asked' = {} /\ todo' = <<>> /\ accepted' = <<>> /\ total' = 0
      /\ member' = FALSE /\ options' = Default
      /\ allowed' = {} /\ answered' = <<>> /\ decided' = policy
      /\ command' = NoCommand
  BY DEF Forget
<1>2. <<>> \in Seq(Blocks)
  OBVIOUS
<1>3. Default \in [profile : Profiles, ports : PortSpecs]
  BY DEF Default, Profiles, PortSpecs
<1>4. NoCommand \in [targets : Seq(Blocks), versions : BOOLEAN,
                     ports : {"explicit", "registered", "common"}]
  BY <1>2 DEF NoCommand
<1>5. TypeOK'
  BY <1>1, <1>2, <1>3, <1>4 DEF Inv, TypeOK, Phases
<1>6. Obeys' /\ Inside' /\ Tried'
  BY <1>1 DEF Obeys, Inside, Tried, Selecting
<1>7. QED
  BY <1>5, <1>6 DEF Inv

LEMMA InvStep ==
  ASSUME Inv, [Next]_vars
  PROVE  Inv'
<1>0. TypeOK /\ Obeys /\ Inside /\ Tried
  BY DEF Inv
<1>1. CASE Launch
  BY <1>1, LaunchStep
<1>2. CASE Consider
  BY <1>2, ConsiderStep
<1>3. CASE Refuse \/ Enqueue \/ Claim \/ Reject \/ Build \/ NmapFails
  BY <1>3, WorkStep
<1>4. CASE Leave \/ \E report \in Reports : Store(report)
  BY <1>4, ForgetStep DEF Leave, Store
<1>5. ASSUME NEW n \in Registrable, Register(n)
      PROVE  Inv'
  <2>1. /\ registered' \subseteq Registrable
        /\ UNCHANGED <<policy, phase, decision, selection, outcome>>
    BY <1>0, <1>5 DEF Register, TypeOK
  <2>2. TypeOK'
    BY <1>0, <2>1 DEF TypeOK, decision, selection, outcome
  <2>3. Obeys' /\ Inside' /\ Tried'
    BY <1>0, <2>1 DEF Obeys, Inside, Tried, Hopeless, decision, selection
  <2>4. QED
    BY <2>2, <2>3 DEF Inv
<1>6. ASSUME NEW p \in Policies, Deploy(p)
      PROVE  Inv'
  <2>1. /\ phase = "queued" /\ policy' = p
        /\ UNCHANGED <<registered, phase, decision, selection, outcome>>
    BY <1>6 DEF Deploy
  <2>2. TypeOK'
    BY <1>0, <2>1 DEF TypeOK, decision, selection, outcome
  <2>3. Obeys' /\ Inside' /\ Tried'
    BY <1>0, <2>1 DEF Obeys, Inside, Tried, Selecting, decision, selection
  <2>4. QED
    BY <2>2, <2>3 DEF Inv
<1>7. CASE UNCHANGED vars
  <2>1. TypeOK'
    BY <1>0, <1>7 DEF TypeOK, vars, decision, selection, outcome
  <2>2. Obeys' /\ Inside' /\ Tried'
    BY <1>0, <1>7 DEF Obeys, Inside, Tried, Hopeless, vars, decision, selection
  <2>3. QED
    BY <2>1, <2>2 DEF Inv
<1>8. QED
  BY <1>1, <1>2, <1>3, <1>4, <1>5, <1>6, <1>7 DEF Next, Work

LEMMA InvariantHolds == Spec => []Inv
<1>1. Inv /\ [Next]_vars => Inv'
  BY InvStep
<1>2. QED
  BY <1>1, InvInit, PTL DEF Spec

(***************************************************************************)
(* The worker decides again                                                *)
(***************************************************************************)
\* What a selection under p keeps whole.
Accepts(p, list) ==
  (\A n \in RangeOf(list) : Permitted(p, n)) /\ AddressesOf(list) <= p.ceiling

Counted == phase \in Selecting => total = AddressesOf(accepted)

\* What the worker has looked at of the message, and what it has yet to.
Halfway ==
  /\ accepted = SubSeq(answered, 1, Len(accepted)) /\ Len(accepted) <= Len(answered)
  /\ todo = SubSeq(answered, Len(accepted) + 1, Len(answered))

Agreed ==
  /\ phase = "selecting" => policy = decided
  /\ phase \in {"queued", "reselecting", "scanning"} => Accepts(decided, answered)
  /\ phase = "reselecting" /\ policy = decided => Halfway
  /\ phase = "scanning" =>
       /\ policy = decided => command.targets = answered
       /\ command.ports = PortSelection(options) /\ options.ports # "malformed"
       /\ policy = decided => accepted = answered

LEMMA AgreementInit == Init => Counted /\ Agreed
BY DEF Init, Counted, Agreed, Selecting

LEMMA AgreementConsider ==
  ASSUME Inv, Counted, Agreed, Consider
  PROVE  Counted' /\ Agreed'
<1> DEFINE n == Head(todo)
           k == Len(accepted)
<1>0. /\ todo \in Seq(Blocks) /\ accepted \in Seq(Blocks) /\ answered \in Seq(Blocks)
      /\ total \in Nat /\ policy.ceiling \in Nat
  BY Policy DEF Inv, TypeOK
<1>1. /\ phase \in {"selecting", "reselecting"} /\ todo # <<>>
      /\ todo' = Tail(todo)
      /\ IF Permitted(policy, n) /\ Fits(n)
         THEN accepted' = Append(accepted, n) /\ total' = total + n.size
         ELSE UNCHANGED <<accepted, total>>
      /\ UNCHANGED <<policy, phase, decided, answered>>
  BY DEF Consider, decision
<1>2. n \in Blocks /\ total = AddressesOf(accepted)
  BY <1>0, <1>1, RangeOfTail DEF Counted, Selecting
<1>3. Counted'
  <2>1. total' = AddressesOf(accepted')
    <3> HIDE DEF n
    <3>1. QED
      BY <1>0, <1>1, <1>2, AddressesOfAppend
  <2>2. QED
    BY <2>1 DEF Counted
<1>4. ASSUME phase = "reselecting", policy = decided PROVE Halfway'
  <2>1. /\ accepted = SubSeq(answered, 1, k) /\ k <= Len(answered) /\ k \in Nat
        /\ todo = SubSeq(answered, k + 1, Len(answered))
        /\ Accepts(policy, answered)
    BY <1>0, <1>4 DEF Agreed, Halfway
  <2>2. Len(todo) >= 1 /\ Len(todo) = Len(answered) - k
    BY <1>0, <1>1, <2>1
  <2>3. k + 1 \in 1..Len(answered) /\ n = answered[k + 1]
    BY <1>0, <2>1, <2>2
  <2>4. Append(accepted, n) = SubSeq(answered, 1, k + 1) /\ Len(Append(accepted, n)) = k + 1
    <3>1. \A i \in 1..k : accepted[i] = answered[i]
      BY <1>0, <2>1, <2>3
    <3>2. /\ Len(SubSeq(answered, 1, k + 1)) = k + 1
          /\ \A i \in 1..(k + 1) : SubSeq(answered, 1, k + 1)[i] = answered[i]
          /\ SubSeq(answered, 1, k + 1) \in Seq(Blocks)
      BY <1>0, <2>1, <2>3
    <3>3. /\ Append(accepted, n) \in Seq(Blocks) /\ Len(Append(accepted, n)) = k + 1
          /\ \A i \in 1..(k + 1) : Append(accepted, n)[i] = answered[i]
      BY <1>0, <1>2, <2>1, <2>3, <3>1
    <3>4. QED
      BY <3>2, <3>3
  <2>5. Tail(todo) = SubSeq(answered, k + 2, Len(answered))
    BY <1>0, <2>1, <2>2, <2>3
  <2>6. Permitted(policy, n)
    BY <1>0, <2>1, <2>3 DEF Accepts, RangeOf
  <2>7. Fits(n)
    <3>1. k + 1 \in 0..Len(answered)
      BY <2>3
    <3>2. AddressesOf(SubSeq(answered, 1, k + 1)) <= AddressesOf(answered)
      BY <1>0, <3>1, AddressesOfPrefix
    <3>3. total + n.size = AddressesOf(SubSeq(answered, 1, k + 1))
      <4> HIDE DEF n, k
      <4>1. QED
        BY <1>0, <1>2, <2>4, AddressesOfAppend
    <3>4. AddressesOf(answered) <= policy.ceiling
      BY <2>1 DEF Accepts
    <3>5. AddressesOf(answered) \in Nat /\ AddressesOf(SubSeq(answered, 1, k + 1)) \in Nat
      BY <1>0, <3>1, AddressesAreNat
    <3>6. QED
      BY <1>0, <3>2, <3>3, <3>4, <3>5 DEF Fits
  <2>8. accepted' = Append(accepted, n) /\ todo' = Tail(todo) /\ answered' = answered
    BY <1>1, <2>6, <2>7
  <2>9. Len(accepted') = k + 1 /\ k + 1 <= Len(answered) /\ (k + 1) + 1 = k + 2
    BY <2>1, <2>3, <2>4, <2>8
  <2> HIDE DEF n, k
  <2>10. QED
    BY <2>4, <2>5, <2>8, <2>9 DEF Halfway
<1> HIDE DEF n
<1>5. Agreed'
  BY <1>1, <1>4 DEF Agreed
<1>6. QED
  BY <1>3, <1>5

LEMMA AgreementStep ==
  ASSUME Inv, Counted, Agreed, [Next]_vars
  PROVE  Counted' /\ Agreed'
<1>0. answered \in Seq(Blocks) /\ accepted \in Seq(Blocks)
  BY DEF Inv, TypeOK
<1>1. CASE Launch
  <2>1. phase' = "selecting" /\ accepted' = <<>> /\ total' = 0 /\ policy' = policy /\ decided' = policy
    BY <1>1 DEF Launch, LaunchRegistered, LaunchInline, Select
  <2>2. QED
    BY <2>1, AddressesOfEmpty DEF Counted, Agreed
<1>2. CASE Consider
  BY <1>2, AgreementConsider
<1>3. CASE Refuse
  BY <1>3 DEF Refuse, Counted, Agreed, Selecting
<1>4. CASE Enqueue
  <2>1. /\ phase = "selecting" /\ phase' = "queued" /\ answered' = accepted
        /\ policy' = policy /\ decided' = decided
    BY <1>4 DEF Enqueue
  <2>2. Accepts(decided, accepted)
    BY <2>1 DEF Inv, Obeys, Counted, Agreed, Accepts, Selecting
  <2>3. QED
    BY <2>1, <2>2 DEF Counted, Agreed, Selecting
<1>5. CASE Claim
  <2>1. /\ phase = "queued" /\ phase' = "reselecting" /\ accepted' = <<>> /\ total' = 0
        /\ todo' = answered /\ UNCHANGED <<policy, decided, answered>>
    BY <1>5 DEF Claim, Select, decision
  <2>2. Halfway'
    <3>1. Len(<<>>) = 0 /\ SubSeq(answered, 1, 0) = <<>> /\ SubSeq(answered, 1, Len(answered)) = answered
          /\ 0 <= Len(answered)
      BY <1>0
    <3>2. QED
      BY <2>1, <3>1 DEF Halfway
  <2>3. QED
    BY <2>1, <2>2, AddressesOfEmpty DEF Counted, Agreed
<1>6. CASE Reject \/ NmapFails \/ Leave \/ \E report \in Reports : Store(report)
  <2>1. phase' \in {"failed", "idle", "completed"}
    BY <1>6 DEF Reject, NmapFails, Leave, Store
  <2>2. QED
    BY <2>1 DEF Counted, Agreed, Selecting
<1>7. CASE Build
  <2>1. /\ phase = "reselecting" /\ todo = <<>> /\ options.ports # "malformed" /\ phase' = "scanning"
        /\ command' = [targets |-> accepted, versions |-> DetectsVersions(options.profile),
                       ports |-> PortSelection(options)]
        /\ UNCHANGED <<policy, decided, answered, options, accepted, total>>
    BY <1>7 DEF Build, decision, selection
  <2>2. command'.targets = accepted /\ command'.ports = PortSelection(options)
    BY <2>1
  <2>3. policy = decided => accepted = answered
    <3> SUFFICES ASSUME policy = decided PROVE accepted = answered
      OBVIOUS
    <3>1. /\ accepted = SubSeq(answered, 1, Len(accepted)) /\ Len(accepted) <= Len(answered)
          /\ SubSeq(answered, Len(accepted) + 1, Len(answered)) = <<>>
      BY <2>1 DEF Agreed, Halfway
    <3>2. Len(accepted) = Len(answered)
      <4>1. Len(accepted) \in Nat /\ Len(answered) \in Nat
        BY <1>0
      <4>2. Len(SubSeq(answered, Len(accepted) + 1, Len(answered))) = 0
        <5> DEFINE rest == SubSeq(answered, Len(accepted) + 1, Len(answered))
        <5>1. rest = <<>>
          BY <3>1
        <5> HIDE DEF rest
        <5>2. Len(rest) = 0
          BY <5>1
        <5>3. QED
          BY <5>2 DEF rest
      <4>3. Len(accepted) < Len(answered) =>
              Len(SubSeq(answered, Len(accepted) + 1, Len(answered))) = Len(answered) - Len(accepted)
        BY <1>0, <4>1
      <4>4. QED
        BY <3>1, <4>1, <4>2, <4>3
    <3>3. SubSeq(answered, 1, Len(answered)) = answered
      BY <1>0
    <3>4. QED
      BY <3>1, <3>2, <3>3
  <2>4. Counted'
    BY <2>1 DEF Counted, Selecting
  <2>5. Agreed'
    BY <2>1, <2>2, <2>3 DEF Agreed
  <2>6. QED
    BY <2>4, <2>5
<1>8. CASE \E n \in Registrable : Register(n)
  BY <1>8 DEF Register, Counted, Agreed, Halfway, decision, selection, outcome
<1>9. CASE \E p \in Policies : Deploy(p)
  BY <1>9 DEF Deploy, Counted, Agreed, Halfway, Selecting, decision, selection, outcome
<1>10. CASE UNCHANGED vars
  BY <1>10 DEF vars, Counted, Agreed, Halfway, decision, selection, outcome
<1>11. QED
  BY <1>1, <1>2, <1>3, <1>4, <1>5, <1>6, <1>7, <1>8, <1>9, <1>10 DEF Next, Work

(***************************************************************************)
(* What is stored                                                          *)
(***************************************************************************)
\* The findings of a completed scan are those of a report that Nmap wrote, and
\* the index accepted them.
Stored ==
  phase = "completed" => Storable(results) /\ \E report \in Reports : results = Parsed(report)

LEMMA StoredInit == Init => Stored
BY DEF Init, Stored

LEMMA StoredStep ==
  ASSUME Stored, [Next]_vars
  PROVE  Stored'
<1>1. CASE Launch
  BY <1>1 DEF Launch, LaunchRegistered, LaunchInline, Stored
<1>2. CASE Consider
  BY <1>2 DEF Consider, Stored
<1>3. CASE Refuse \/ Enqueue
  BY <1>3 DEF Refuse, Enqueue, Stored
<1>4. CASE Claim \/ Reject \/ Build \/ NmapFails
  BY <1>4 DEF Claim, Reject, Build, NmapFails, Stored
<1>5. ASSUME NEW report \in Reports, Store(report) PROVE Stored'
  <2>1. CASE Storable(Parsed(report))
    <3>1. results' = Parsed(report)
      BY <1>5, <2>1 DEF Store
    <3> DEFINE found == Parsed(report)
    <3> HIDE DEF found
    <3>2. Storable(found) /\ results' = found /\ found = Parsed(report)
      BY <2>1, <3>1 DEF found
    <3>3. (Storable(results))'
      BY <3>2 DEF Storable
    <3>4. QED
      BY <3>2, <3>3 DEF Stored
  <2>2. CASE ~Storable(Parsed(report))
    BY <1>5, <2>2 DEF Store, Stored
  <2>3. QED
    BY <2>1, <2>2
<1>6. CASE Leave
  BY <1>6 DEF Leave, Stored
<1>7. CASE (\E n \in Registrable : Register(n)) \/ (\E p \in Policies : Deploy(p))
  BY <1>7 DEF Register, Deploy, Stored, Storable, outcome
<1>8. CASE UNCHANGED vars
  BY <1>8 DEF vars, Stored, Storable, outcome
<1>9. QED
  BY <1>1, <1>2, <1>3, <1>4, <1>5, <1>6, <1>7, <1>8 DEF Next, Work

LEMMA StoredHolds == Spec => []Stored
<1>1. Init => Stored
  BY StoredInit
<1>2. Stored /\ [Next]_vars => Stored'
  BY StoredStep
<1>3. QED
  BY <1>1, <1>2, PTL DEF Spec

(***************************************************************************)
(* What Nmap is given                                                      *)
(***************************************************************************)
Given == phase = "scanning" => command.targets = accepted /\ accepted # <<>>

LEMMA GivenStep ==
  ASSUME Given, [Next]_vars
  PROVE  Given'
<1>1. CASE Build
  BY <1>1 DEF Build, Given, selection
<1>2. CASE Launch
  BY <1>2 DEF Launch, LaunchRegistered, LaunchInline, Given
<1>3. CASE Consider \/ Refuse \/ Enqueue \/ Claim \/ Reject \/ NmapFails
  BY <1>3 DEF Consider, Refuse, Enqueue, Claim, Reject, NmapFails, Given
<1>4. CASE (\E report \in Reports : Store(report)) \/ Leave
  BY <1>4 DEF Store, Leave, Given
<1>5. CASE (\E n \in Registrable : Register(n)) \/ (\E p \in Policies : Deploy(p)) \/ UNCHANGED vars
  BY <1>5 DEF Register, Deploy, vars, Given, selection, outcome
<1>6. QED
  BY <1>1, <1>2, <1>3, <1>4, <1>5 DEF Next, Work

LEMMA GivenHolds == Spec => []Given
<1>1. Init => Given
  BY DEF Init, Given
<1>2. QED
  BY <1>1, GivenStep, PTL DEF Spec

(***************************************************************************)
(* Theorems                                                                *)
(***************************************************************************)
\* TypeOK: whatever callers type, everything that is selected, queued and given
\* to Nmap is a canonical block.
THEOREM PipelineTypeCorrect == Spec => []TypeOK
<1>1. Inv => TypeOK
  BY DEF Inv
<1>2. QED
  BY <1>1, InvariantHolds, PTL

\* SelectionObeysPolicy: no selection, in the API or in the worker, has an
\* address that the settings of that moment refuse, or more than the ceiling.
THEOREM NothingForbiddenIsScanned == Spec => []SelectionObeysPolicy
<1>1. Inv => SelectionObeysPolicy
  <2> SUFFICES ASSUME Inv, phase \in {"selecting", "reselecting", "scanning"}
               PROVE  /\ \A n \in RangeOf(accepted) :
                           /\ \A m \in Forbidden(policy) : Covers(n) \cap Covers(m) = {}
                           /\ policy.allowPrivate \/ \A p \in Private : ~(Covers(n) \subseteq Covers(p))
                      /\ total <= policy.ceiling
    BY DEF SelectionObeysPolicy
  <2>1. total <= policy.ceiling /\ \A n \in RangeOf(accepted) : Permitted(policy, n)
    BY DEF Inv, Obeys, Selecting
  <2>2. policy \in PolicyType /\ RangeOf(accepted) \subseteq Blocks
    BY Policy DEF Inv, TypeOK, RangeOf
  <2>3. QED
    BY <2>1, <2>2, PermittedCovers
<1>2. QED
  BY <1>1, InvariantHolds, PTL

\* StaysInside: a member's scan never leaves the ranges that were registered
\* when it was launched, however they are edited while it is queued and run.
THEOREM MembersScanTheirRanges == Spec => []StaysInside
<1>1. Inv => StaysInside
  <2> SUFFICES ASSUME Inv PROVE StaysInside
    OBVIOUS
  <2>1. asked \subseteq Blocks /\ allowed \subseteq Blocks
    BY PipelineAssumption DEF Inv, TypeOK
  <2>2. member => \A n \in asked : \E r \in allowed : Covers(n) \subseteq Covers(r)
    BY <2>1, ContainmentCovers DEF Inv, Inside
  <2>3. /\ phase \in {"selecting", "reselecting", "scanning"} =>
             RangeOf(todo) \cup RangeOf(accepted) \subseteq asked
        /\ phase \in {"reselecting", "scanning"} => RangeOf(accepted) \subseteq RangeOf(answered)
    BY DEF Inv, Inside, Selecting
  <2>4. QED
    BY <2>2, <2>3 DEF StaysInside
<1>2. QED
  BY <1>1, InvariantHolds, PTL

\* RefusedOnlyIfHopeless: no order of the targets and no ceiling met on the way
\* refuses a launch of which one target could have been scanned alone.
THEOREM RefusalsAreDeserved == Spec => []RefusedOnlyIfHopeless
<1>1. Inv => RefusedOnlyIfHopeless
  BY DEF Inv, Tried, Hopeless, RefusedOnlyIfHopeless
<1>2. QED
  BY <1>1, InvariantHolds, PTL

\* WorkerAgrees: under the settings the API decided under, the worker gives
\* Nmap the targets of the answer, all of them and in their order, with the
\* ports that were asked for, and has counted exactly their addresses.
THEOREM WorkerDecidesTheSame == Spec => []WorkerAgrees
<1>1. Inv /\ Counted /\ Agreed /\ [Next]_vars => Counted' /\ Agreed'
  BY AgreementStep
<1>2. Inv /\ Counted /\ Agreed => WorkerAgrees
  <2> SUFFICES ASSUME Inv, Counted, Agreed, phase = "scanning", policy = decided
               PROVE  /\ command.targets = answered
                      /\ command.ports = "explicit" <=> options.ports = "explicit"
                      /\ total = AddressesOf(answered)
    BY DEF WorkerAgrees, AddressesOf
  <2>1. command.targets = answered /\ accepted = answered /\ total = AddressesOf(accepted)
    BY DEF Counted, Agreed, Selecting
  <2>2. command.ports = PortSelection(options) /\ options.ports \in {"none", "explicit"}
    BY DEF Agreed, Inv, TypeOK, PortSpecs
  <2>3. QED
    BY <2>1, <2>2 DEF PortSelection
<1>3. Init => Counted /\ Agreed
  BY AgreementInit
<1>4. QED
  BY <1>1, <1>2, <1>3, InvariantHolds, PTL DEF Spec

\* SummaryIsTrue: whatever Nmap writes in its report, what is shown of a
\* completed scan counts every open port that was stored, each once, and shows
\* the worst of them.
THEOREM SummariesAreTrue == Spec => []SummaryIsTrue
<1>1. Stored => SummaryIsTrue
  <2> SUFFICES ASSUME Stored, phase = "completed" PROVE SummaryIsTrue
    BY DEF SummaryIsTrue
  <2>1. Storable(results) /\ results \in Seq(Host)
    BY ParsedType, PipelineAssumption DEF Stored
  <2>2. Exact(Summary(results), Judged(results))
    BY <2>1, AssessmentIsExact
  <2>3. QED
    BY <2>1, <2>2 DEF SummaryIsTrue, Exact, Storable
<1>2. QED
  BY <1>1, StoredHolds, PTL

\* What is stored of a completed scan is what Nmap reported: its hosts stand in
\* the order of their addresses, each once, and an open port is stored exactly
\* when an element of its host has it.
StoredIsReported ==
  phase = "completed" =>
    /\ results \in Seq(Host)
    /\ \A i, j \in DOMAIN results : i < j => results[i].host < results[j].host
    /\ \E report \in Reports : \A address, port :
         (\E h \in RangeOf(results) : h.host = address /\ port \in RangeOf(h.ports))
           <=> \E e \in RangeOf(report) :
                 /\ Answered(e) /\ e.host = address
                 /\ \E p \in RangeOf(e.ports) : Reportable(p) /\ port = ReadPort(p)

THEOREM FindingsAreReported == Spec => []StoredIsReported
<1>1. Stored => StoredIsReported
  <2> SUFFICES ASSUME Stored, phase = "completed" PROVE StoredIsReported
    BY DEF StoredIsReported
  <2>1. PICK report \in Reports : results = Parsed(report)
    BY DEF Stored
  <2>2. report \in Seq(HostElements) /\ Storable(results)
    BY PipelineAssumption DEF Stored
  <2>3. /\ results \in Seq(Host)
        /\ \A i, j \in DOMAIN results : i < j => results[i].host <= results[j].host
    BY <2>1, <2>2, ParsedType
  <2>4. ASSUME NEW i \in DOMAIN results, NEW j \in DOMAIN results, i < j
        PROVE  results[i].host < results[j].host
    <3>1. results[i].host <= results[j].host /\ i # j
      BY <2>3, <2>4
    <3>2. results[i].host # results[j].host
      BY <2>2, <3>1 DEF Storable
    <3>3. results[i] \in Host /\ results[j] \in Host
      BY <2>3
    <3>4. results[i].host \in Nat /\ results[j].host \in Nat
      BY <3>3 DEF Host
    <3>5. QED
      BY <3>1, <3>2, <3>4
  <2>5. \A address, port :
          (\E h \in RangeOf(Parsed(report)) : h.host = address /\ port \in RangeOf(h.ports))
            <=> \E e \in RangeOf(report) :
                  /\ Answered(e) /\ e.host = address
                  /\ \E p \in RangeOf(e.ports) : Reportable(p) /\ port = ReadPort(p)
    BY <2>2, ReportIsKept
  <2>6. QED
    BY <2>1, <2>3, <2>4, <2>5 DEF StoredIsReported
<1>2. QED
  BY <1>1, StoredHolds, PTL

\* Whatever was asked for, queued and deployed since, Nmap is given something,
\* none of it an address that the settings of the worker forbid, and no more
\* addresses than their ceiling: those of the targets themselves, not those that
\* the loop has counted.
CommandIsPermitted ==
  phase = "scanning" =>
    /\ command.targets # <<>>
    /\ AddressesOf(command.targets) <= policy.ceiling
    /\ \A n \in RangeOf(command.targets) :
         /\ \A m \in Forbidden(policy) : Covers(n) \cap Covers(m) = {}
         /\ policy.allowPrivate \/ \A p \in Private : ~(Covers(n) \subseteq Covers(p))

THEOREM NmapIsGivenThePermitted == Spec => []CommandIsPermitted
<1>1. Spec => []Counted
  <2>1. Inv /\ Counted /\ Agreed /\ [Next]_vars => Counted' /\ Agreed'
    BY AgreementStep
  <2>2. QED
    BY <2>1, AgreementInit, InvariantHolds, PTL DEF Spec
<1>2. SelectionObeysPolicy /\ Counted /\ Given => CommandIsPermitted
  <2> SUFFICES ASSUME SelectionObeysPolicy, Counted, Given, phase = "scanning"
               PROVE  CommandIsPermitted
    BY DEF CommandIsPermitted
  <2>1. command.targets = accepted /\ accepted # <<>> /\ total = AddressesOf(accepted)
    BY DEF Given, Counted, Selecting
  <2>2. QED
    BY <2>1 DEF SelectionObeysPolicy, CommandIsPermitted
<1>3. QED
  BY <1>1, <1>2, GivenHolds, NothingForbiddenIsScanned, PTL
=============================================================================
