------------------------ MODULE BatteryHistory_proofs ------------------------
(***************************************************************************)
(* The groups of samples are the devices, and the safety of the battery    *)
(* history: for every set of devices and of tags that they report, every   *)
(* retention and every bound on samples, clears, responses and mishaps.    *)
(***************************************************************************)
EXTENDS BatteryHistory, SequenceTheorems, FiniteSetTheorems, WellFoundedInduction, TLAPS

-----------------------------------------------------------------------------
(* Recursion along a list. *)

(* A set of numbers that is not empty has a least one. *)
LEMMA LeastExists ==
  ASSUME NEW S, S \subseteq Nat, S # {}
  PROVE  \E i \in S : \A j \in S : i <= j
<1>1. PICK i \in S : \A j \in S : ~(<<j, i>> \in OpToRel(<, Nat))
  BY NatLessThanWellFounded, WFMin
<1>2. \A j \in S : ~(j < i)
  BY <1>1 DEF OpToRel
<1>3. QED BY <1>2

(* What holds of 0, and of n + 1 if it holds of n, holds of every n up to N. *)
LEMMA Reaches ==
  ASSUME NEW N \in Nat, NEW S, 0 \in S, \A n \in 0..(N - 1) : n \in S => n + 1 \in S
  PROVE  \A n \in 0..N : n \in S
<1> DEFINE left == {n \in 0..N : n \notin S}
<1>1. SUFFICES ASSUME left # {} PROVE FALSE
  OBVIOUS
<1>2. PICK i \in left : \A j \in left : i <= j
  <2>1. left \subseteq Nat
    OBVIOUS
  <2> HIDE DEF left
  <2>2. QED BY <1>1, <2>1, LeastExists
<1>3. i # 0 /\ i - 1 \in 0..(N - 1)
  BY <1>2
<1>4. i - 1 \notin left
  BY <1>2, <1>3
<1>5. QED BY <1>2, <1>3, <1>4

(* There is a function that starts with x and goes on by step. *)
Steps(N, X) == [1..N -> [X -> X]]
Runs(f, n, x, step) == f[0] = x /\ \A m \in 1..n : f[m] = step[m][f[m - 1]]

LEMMA Recursion ==
  ASSUME NEW N \in Nat, NEW X, NEW x \in X, NEW step \in Steps(N, X)
  PROVE  \E f \in [0..N -> X] : Runs(f, N, x, step)
<1> USE DEF Steps, Runs
<1> DEFINE S == {n \in 0..N : \E f \in [0..n -> X] : Runs(f, n, x, step)}
<1>1. 0 \in S
  <2> DEFINE f == [m \in 0..0 |-> x]
  <2>1. f \in [0..0 -> X] /\ Runs(f, 0, x, step)
    OBVIOUS
  <2>2. 0 \in 0..N
    OBVIOUS
  <2> HIDE DEF f, Runs
  <2>3. QED BY <2>1, <2>2, Zenon
<1>2. ASSUME NEW n \in 0..(N - 1), n \in S
      PROVE  n + 1 \in S
  <2>1. PICK f \in [0..n -> X] : Runs(f, n, x, step)
    BY <1>2
  <2> DEFINE g == [m \in 0..(n + 1) |-> IF m = n + 1 THEN step[n + 1][f[n]] ELSE f[m]]
  <2>2. g \in [0..(n + 1) -> X]
    BY <2>1
  <2>3. \A m \in 1..(n + 1) : g[m] = step[m][g[m - 1]]
    BY <2>1
  <2>4. Runs(g, n + 1, x, step)
    BY <2>1, <2>2, <2>3
  <2>5. n + 1 \in 0..N
    OBVIOUS
  <2> HIDE DEF g, Runs
  <2>6. QED BY <2>2, <2>4, <2>5
<1>3. \A n \in 0..N : n \in S
  <2> HIDE DEF S
  <2>1. \A n \in 0..(N - 1) : n \in S => n + 1 \in S
    BY <1>2
  <2>2. QED BY <1>1, <2>1, Reaches, Zenon
<1>4. QED BY <1>3

(* Keep is the end of such a run along its list. *)
KeepsAll(f, list, I) ==
    /\ f[0] = <<>>
    /\ \A n \in 1..Len(list) : f[n] = IF n \in I THEN Append(f[n - 1], list[n]) ELSE f[n - 1]

LEMMA KeepRuns ==
  ASSUME NEW S, NEW list \in Seq(S), NEW I
  PROVE  \E f \in [0..Len(list) -> Seq(S)] : KeepsAll(f, list, I) /\ Keep(list, I) = f[Len(list)]
<1> DEFINE N == Len(list)
           Turn(n, k) == IF n \in I THEN Append(k, list[n]) ELSE k
           Run(f) == [n \in 0..N |-> IF n = 0 THEN <<>> ELSE Turn(n, f[n - 1])]
           run == CHOOSE f : f = Run(f)
           step == [n \in 1..N |-> [k \in Seq(S) |-> Turn(n, k)]]
<1>0. Keep(list, I) = run[N]
  BY Zenon DEF Keep
<1>1. N \in Nat /\ <<>> \in Seq(S) /\ \A n \in 1..N, k \in Seq(S) : Turn(n, k) \in Seq(S)
  OBVIOUS
<1>2. SUFFICES \E f \in [0..N -> Seq(S)] :
                   /\ f[0] = <<>>
                   /\ \A n \in 1..N : f[n] = Turn(n, f[n - 1])
                   /\ run[N] = f[N]
  BY <1>0 DEF KeepsAll
<1> HIDE DEF N, Turn
<1>3. step \in [1..N -> [Seq(S) -> Seq(S)]]
  BY <1>1
<1>4. PICK f \in [0..N -> Seq(S)] : f[0] = <<>> /\ \A n \in 1..N : f[n] = step[n][f[n - 1]]
  <2> HIDE DEF step
  <2> DEFINE X == Seq(S)
             x == <<>>
  <2>1. N \in Nat /\ x \in X /\ step \in Steps(N, X)
    BY <1>1, <1>3 DEF Steps
  <2> HIDE DEF X, x
  <2>2. \E g \in [0..N -> X] : Runs(g, N, x, step)
    BY <2>1, Recursion
  <2>3. QED BY <2>2 DEF X, x, Runs
<1>5. \A n \in 1..N : f[n] = Turn(n, f[n - 1])
  <2> TAKE n \in 1..N
  <2>1. n - 1 \in 0..N
    BY <1>1
  <2>2. f[n - 1] \in Seq(S)
    BY <1>4, <2>1
  <2>3. QED BY <1>4, <2>2
<1>6. f = Run(f)
  <2>1. \A n \in 0..N : f[n] = IF n = 0 THEN <<>> ELSE Turn(n, f[n - 1])
    BY <1>1, <1>4, <1>5
  <2>2. QED BY <1>4, <2>1
<1>7. run = Run(run)
  <2> HIDE DEF Run
  <2>1. QED BY <1>6
<1>8. /\ run = [n \in 0..N |-> run[n]]
      /\ run[0] = <<>>
      /\ \A n \in 1..N : run[n] = Turn(n, run[n - 1])
  <2> HIDE DEF run
  <2>1. DOMAIN run = 0..N /\ \A n \in 0..N : run[n] = IF n = 0 THEN <<>> ELSE Turn(n, run[n - 1])
    BY <1>7
  <2>2. run = [n \in 0..N |-> run[n]]
    BY <1>7
  <2>3. QED BY <1>1, <2>1, <2>2
<1> HIDE DEF run
<1>9. \A n \in 0..N : run[n] = f[n]
  <2> DEFINE Equal == {n \in 0..N : run[n] = f[n]}
  <2>1. 0 \in Equal
    BY <1>1, <1>4, <1>8
  <2>2. ASSUME NEW n \in 0..(N - 1), n \in Equal PROVE n + 1 \in Equal
    <3>1. n + 1 \in 1..N /\ (n + 1) - 1 = n
      BY <1>1
    <3>2. run[n + 1] = Turn(n + 1, run[n]) /\ f[n + 1] = Turn(n + 1, f[n])
      BY <1>5, <1>8, <3>1
    <3>3. n + 1 \in 0..N
      BY <1>1
    <3>4. QED BY <2>2, <3>2, <3>3
  <2> HIDE DEF Equal
  <2>3. \A n \in 0..(N - 1) : n \in Equal => n + 1 \in Equal
    BY <2>2
  <2>4. \A n \in 0..N : n \in Equal
    BY <1>1, <2>1, <2>3, Reaches, Zenon
  <2>5. QED BY <2>4 DEF Equal
<1> HIDE DEF Run, step
<1>10. f[0] = <<>> /\ (\A n \in 1..N : f[n] = Turn(n, f[n - 1])) /\ run[N] = f[N]
  BY <1>1, <1>4, <1>5, <1>9
<1>11. QED BY <1>10, Zenon

(* f says from which places of the first n of a list the elements of k are: from
   all those of I, in their order. *)
Embeds(f, k, list, I, n) ==
    /\ \A i \in 1..Len(k) : f[i] \in 1..n /\ f[i] \in I /\ k[i] = list[f[i]]
    /\ \A i, j \in 1..Len(k) : i < j => f[i] < f[j]
    /\ \A m \in 1..n : m \in I => \E i \in 1..Len(k) : f[i] = m

(* What Keep leaves of a list are its elements at the places of I. *)
LEMMA KeepEmbeds ==
  ASSUME NEW S, NEW list \in Seq(S), NEW I
  PROVE  /\ Keep(list, I) \in Seq(S)
         /\ \E f : Embeds(f, Keep(list, I), list, I, Len(list))
<1> DEFINE N == Len(list)
<1>1. PICK run \in [0..N -> Seq(S)] :
            KeepsAll(run, list, I) /\ Keep(list, I) = run[N]
  BY KeepRuns
<1> DEFINE Done == {n \in 0..N : \E f : Embeds(f, run[n], list, I, n)}
<1>2. 0 \in Done
  <2>1. Embeds(<<>>, run[0], list, I, 0)
    BY <1>1 DEF Embeds, KeepsAll
  <2>2. QED BY <2>1
<1>3. ASSUME NEW n \in 0..(N - 1), n \in Done
      PROVE  n + 1 \in Done
  <2>1. PICK f : Embeds(f, run[n], list, I, n)
    BY <1>3
  <2>2. n + 1 \in 1..N /\ (n + 1) - 1 = n /\ n \in 0..N /\ n + 1 \in 0..N
    OBVIOUS
  <2>3. run[n] \in Seq(S) /\ list[n + 1] \in S
    BY <1>1, <2>2
  <2>4. run[n + 1] = IF n + 1 \in I THEN Append(run[n], list[n + 1]) ELSE run[n]
    BY <1>1, <2>2 DEF KeepsAll
  <2> DEFINE k == run[n]
             g == [i \in 1..(Len(k) + 1) |-> IF i = Len(k) + 1 THEN n + 1 ELSE f[i]]
             a == Append(k, list[n + 1])
  <2>5. ASSUME n + 1 \in I PROVE Embeds(g, a, list, I, n + 1)
    <3>1. /\ Len(a) = Len(k) + 1 /\ Len(k) \in Nat
          /\ a[Len(k) + 1] = list[n + 1]
          /\ \A i \in 1..Len(k) : a[i] = k[i]
      BY <2>3
    <3>2. /\ g[Len(k) + 1] = n + 1
          /\ \A i \in 1..Len(k) : g[i] = f[i]
      BY <3>1
    <3> HIDE DEF a, g, k
    <3>3. /\ \A i \in 1..Len(k) : f[i] \in 1..n /\ f[i] \in I /\ k[i] = list[f[i]]
          /\ \A i, j \in 1..Len(k) : i < j => f[i] < f[j]
          /\ \A m \in 1..n : m \in I => \E i \in 1..Len(k) : f[i] = m
      BY <2>1 DEF Embeds, k
    <3>4. n \in Nat /\ \A i \in 1..Len(a) : i \in 1..Len(k) \/ i = Len(k) + 1
      BY <3>1
    <3>5. \A i \in 1..Len(a) : g[i] \in 1..(n + 1) /\ g[i] \in I /\ a[i] = list[g[i]]
      <4> TAKE i \in 1..Len(a)
      <4>1. CASE i = Len(k) + 1
        BY <2>2, <2>5, <3>1, <3>2, <4>1
      <4>2. CASE i \in 1..Len(k)
        BY <3>1, <3>2, <3>3, <3>4, <4>2
      <4>3. QED BY <3>4, <4>1, <4>2
    <3>6. \A i, j \in 1..Len(a) : i < j => g[i] < g[j]
      <4> TAKE i, j \in 1..Len(a)
      <4>1. CASE i \in 1..Len(k) /\ j \in 1..Len(k)
        BY <3>2, <3>3, <4>1
      <4>2. CASE i \in 1..Len(k) /\ j = Len(k) + 1
        BY <3>2, <3>3, <3>4, <4>2
      <4>3. CASE i = Len(k) + 1
        BY <3>1, <3>4, <4>3
      <4>4. QED BY <3>4, <4>1, <4>2, <4>3
    <3>7. \A m \in 1..(n + 1) : m \in I => \E i \in 1..Len(a) : g[i] = m
      <4> TAKE m \in 1..(n + 1)
      <4>1. CASE m = n + 1
        <5>1. Len(k) + 1 \in 1..Len(a)
          BY <3>1
        <5>2. QED BY <3>2, <4>1, <5>1
      <4>2. CASE m # n + 1 /\ m \in I
        <5>1. PICK i \in 1..Len(k) : f[i] = m
          BY <3>3, <3>4, <4>2
        <5>2. i \in 1..Len(a)
          BY <3>1
        <5>3. QED BY <3>2, <5>1, <5>2
      <4>3. QED BY <4>1, <4>2
    <3>8. QED BY <3>5, <3>6, <3>7 DEF Embeds
  <2>6. ASSUME n + 1 \notin I PROVE Embeds(f, k, list, I, n + 1)
    BY <2>1, <2>2, <2>3, <2>6 DEF Embeds
  <2>7. \E h : Embeds(h, run[n + 1], list, I, n + 1)
    <3> HIDE DEF g
    <3>1. CASE n + 1 \in I
      BY <2>4, <2>5, <3>1
    <3>2. CASE n + 1 \notin I
      BY <2>4, <2>6, <3>2
    <3>3. QED BY <3>1, <3>2
  <2>8. QED BY <2>2, <2>7
<1>4. N \in Done
  <2>1. N \in Nat /\ \A n \in 0..(N - 1) : n \in Done => n + 1 \in Done
    BY <1>3
  <2> HIDE DEF Done, N
  <2>2. \A n \in 0..N : n \in Done
    BY <1>2, <2>1, Reaches, Zenon
  <2>3. QED BY <2>1, <2>2
<1>5. QED BY <1>1, <1>4

(* The elements of a list are all different, and those at the places of I are. *)
Distinct(list) == \A i, j \in DOMAIN list : i # j => list[i] # list[j]
DistinctAt(list, I) == \A i, j \in I \cap DOMAIN list : i # j => list[i] # list[j]

LEMMA KeepFacts ==
  ASSUME NEW S, NEW list \in Seq(S), NEW I
  PROVE  /\ Keep(list, I) \in Seq(S)
         /\ ToSet(Keep(list, I)) = {list[i] : i \in I \cap DOMAIN list}
         /\ DistinctAt(list, I) => Distinct(Keep(list, I))
         /\ InOrderOnce(list) => InOrderOnce(Keep(list, I))
<1> DEFINE k == Keep(list, I)
<1>1. k \in Seq(S) /\ \E f : Embeds(f, k, list, I, Len(list))
  BY KeepEmbeds
<1> HIDE DEF k
<1>2. PICK f : Embeds(f, k, list, I, Len(list))
  BY <1>1
<1>3. DOMAIN k = 1..Len(k) /\ DOMAIN list = 1..Len(list) /\ Len(k) \in Nat /\ Len(list) \in Nat
  BY <1>1
<1>4. /\ \A i \in DOMAIN k : f[i] \in DOMAIN list /\ f[i] \in I /\ k[i] = list[f[i]]
      /\ \A i, j \in DOMAIN k : i < j => f[i] < f[j]
      /\ \A m \in DOMAIN list : m \in I => \E i \in DOMAIN k : f[i] = m
  BY <1>2, <1>3 DEF Embeds
<1>5. ToSet(k) = {list[i] : i \in I \cap DOMAIN list}
  <2>1. \A i \in DOMAIN k : k[i] \in {list[m] : m \in I \cap DOMAIN list}
    BY <1>4
  <2>2. \A m \in I \cap DOMAIN list : list[m] \in {k[i] : i \in DOMAIN k}
    BY <1>4
  <2>3. QED BY <2>1, <2>2, Zenon DEF ToSet
<1>6. ASSUME DistinctAt(list, I) PROVE Distinct(k)
  <2> SUFFICES ASSUME NEW i \in DOMAIN k, NEW j \in DOMAIN k, i # j
               PROVE  k[i] # k[j]
    BY DEF Distinct
  <2>1. i < j \/ j < i
    BY <1>3
  <2>2. \A m \in DOMAIN k : f[m] \in Nat
    BY <1>3, <1>4
  <2>3. f[i] # f[j]
    BY <1>4, <2>1, <2>2
  <2>4. QED BY <1>4, <1>6, <2>3 DEF DistinctAt
<1>7. ASSUME InOrderOnce(list) PROVE InOrderOnce(k)
  <2> SUFFICES ASSUME NEW i \in DOMAIN k, NEW j \in DOMAIN k, i < j
               PROVE  k[i].at <= k[j].at /\ k[i] # k[j]
    BY DEF InOrderOnce
  <2>1. f[i] < f[j] /\ f[i] \in DOMAIN list /\ f[j] \in DOMAIN list
    BY <1>4
  <2>2. QED BY <1>4, <1>7, <2>1 DEF InOrderOnce
<1>8. QED BY <1>1, <1>5, <1>6, <1>7 DEF k

-----------------------------------------------------------------------------
(* The groups of samples are devices. *)

AllTags == UNION {Tags[d] : d \in Device}
GroupType == [tags : SUBSET AllTags, keys : SUBSET AllTags]
Members(g, S) == {s \in S : Matches(g, s)}
(* What a sample makes of the groups that it matches. *)
Gathered(G, s) == Joined({Group(s)} \cup {g \in G : Matches(g, s)})

LEMMA TagFacts ==
  ASSUME NEW s \in Sample
  PROVE  /\ TagsOf(s) \subseteq AllTags /\ KeysOf(s) \subseteq TagsOf(s) /\ KeysOf(s) # {}
         /\ Group(s) \in GroupType /\ Matches(Group(s), s)
<1>1. s.dev \in Device
  BY DEF Sample
<1>2. TagsOf(s) \subseteq AllTags /\ KeysOf(s) \subseteq TagsOf(s) /\ KeysOf(s) # {}
  BY <1>1, KeysAreTags DEF TagsOf, KeysOf, AllTags
<1>3. QED BY <1>2 DEF Group, GroupType, Matches

LEMMA GatheredFacts ==
  ASSUME NEW s \in Sample, NEW G, G \subseteq GroupType
  PROVE  /\ Gathered(G, s) \in GroupType /\ Matches(Gathered(G, s), s)
         /\ Gathered(G, s).tags = TagsOf(s) \cup UNION {g.tags : g \in {h \in G : Matches(h, s)}}
         /\ Gathered(G, s).keys = KeysOf(s) \cup UNION {g.keys : g \in {h \in G : Matches(h, s)}}
<1> DEFINE M == {h \in G : Matches(h, s)}
<1>1. \A g \in {Group(s)} \cup M : g.tags \subseteq AllTags /\ g.keys \subseteq AllTags
  BY TagFacts DEF GroupType
<1>2. Group(s).tags = TagsOf(s) /\ Group(s).keys = KeysOf(s)
  BY DEF Group
<1>3. Gathered(G, s) = [tags |-> UNION {g.tags : g \in {Group(s)} \cup M},
                        keys |-> UNION {g.keys : g \in {Group(s)} \cup M}]
  BY DEF Gathered, Joined
<1> HIDE DEF M
<1>4. /\ Gathered(G, s).tags = UNION {g.tags : g \in {Group(s)} \cup M}
      /\ Gathered(G, s).keys = UNION {g.keys : g \in {Group(s)} \cup M}
  BY <1>3
<1>5. /\ Gathered(G, s).tags = TagsOf(s) \cup UNION {g.tags : g \in M}
      /\ Gathered(G, s).keys = KeysOf(s) \cup UNION {g.keys : g \in M}
  BY <1>2, <1>4
<1>6. Gathered(G, s) \in GroupType
  BY <1>1, <1>3 DEF GroupType
<1>7. Matches(Gathered(G, s), s)
  BY <1>5, TagFacts DEF Matches
<1>8. QED BY <1>5, <1>6, <1>7 DEF M

(* One sample more: the groups that do not match it stay, the others are one. *)
LEMMA AddSampleFacts ==
  ASSUME NEW groups \in Seq(GroupType), NEW s \in Sample
  PROVE  /\ AddSample(groups, s) \in Seq(GroupType)
         /\ ToSet(AddSample(groups, s))
              = {g \in ToSet(groups) : ~Matches(g, s)} \cup {Gathered(ToSet(groups), s)}
         /\ Distinct(groups) => Distinct(AddSample(groups, s))
<1> DEFINE G == ToSet(groups)
           matching == {i \in DOMAIN groups : Matches(groups[i], s)}
           first == CHOOSE i \in matching : \A j \in matching : i <= j
           joined == [groups EXCEPT ![first] = Joined({Group(s)} \cup {groups[i] : i \in matching})]
           J == Gathered(G, s)
<1>0. AddSample(groups, s) = IF matching = {} THEN Append(groups, Group(s))
                             ELSE Keep(joined, DOMAIN groups \ (matching \ {first}))
  BY Zenon DEF AddSample
<1>1. DOMAIN groups = 1..Len(groups) /\ Len(groups) \in Nat /\ G \subseteq GroupType
  BY DEF ToSet
<1>2. J \in GroupType /\ Matches(J, s)
  <2> HIDE DEF G
  <2>1. QED BY <1>1, GatheredFacts
<1>3. {g \in G : Matches(g, s)} = {groups[i] : i \in matching}
  BY DEF ToSet
<1>4. joined = [groups EXCEPT ![first] = J]
  BY <1>3, Zenon DEF Gathered
<1> HIDE DEF J
<1>5. CASE matching = {}
  <2>1. AddSample(groups, s) = Append(groups, Group(s))
    BY <1>0, <1>5
  <2>2. J = Group(s)
    <3>1. Joined({Group(s)}) = Group(s)
      <4>1. \A g : UNION {g} = g
        OBVIOUS
      <4>2. {g.tags : g \in {Group(s)}} = {TagsOf(s)} /\ {g.keys : g \in {Group(s)}} = {KeysOf(s)}
        BY DEF Group
      <4>3. QED BY <4>1, <4>2, Zenon DEF Joined, Group
    <3>2. {g \in G : Matches(g, s)} = {}
      BY <1>3, <1>5
    <3>3. QED BY <3>1, <3>2 DEF J, Gathered
  <2>3. \A g \in G : ~Matches(g, s)
    BY <1>5 DEF ToSet
  <2> DEFINE a == Append(groups, J)
  <2>4. /\ a \in Seq(GroupType) /\ DOMAIN a = 1..(Len(groups) + 1)
        /\ \A i \in 1..Len(groups) : a[i] = groups[i]
        /\ a[Len(groups) + 1] = J
    BY <1>1, <1>2
  <2> HIDE DEF a
  <2>5. ToSet(a) = G \cup {J}
    <3>1. \A i \in DOMAIN a : i \in DOMAIN groups \/ i = Len(groups) + 1
      BY <1>1, <2>4
    <3>2. \A i \in DOMAIN groups : i \in DOMAIN a /\ a[i] = groups[i]
      BY <1>1, <2>4
    <3>3. Len(groups) + 1 \in DOMAIN a
      BY <1>1, <2>4
    <3>4. QED BY <2>4, <3>1, <3>2, <3>3 DEF ToSet
  <2>6. ASSUME Distinct(groups) PROVE Distinct(a)
    <3>1. \A i \in DOMAIN groups : groups[i] # J
      BY <1>2, <2>3 DEF ToSet
    <3>2. \A i \in DOMAIN a : i \in DOMAIN groups \/ i = Len(groups) + 1
      BY <1>1, <2>4
    <3>3. QED BY <1>1, <2>4, <2>6, <3>1, <3>2 DEF Distinct
  <2>7. a = AddSample(groups, s)
    BY <2>1, <2>2 DEF a
  <2>8. {g \in G : ~Matches(g, s)} = G
    BY <2>3
  <2> HIDE DEF G
  <2>9. QED BY <2>4, <2>5, <2>6, <2>7, <2>8 DEF G, J
<1>6. CASE matching # {}
  <2>1. first \in matching
    <3>1. matching \subseteq Nat
      BY <1>1
    <3> HIDE DEF matching
    <3>2. \E i \in matching : \A j \in matching : i <= j
      BY <1>6, <3>1, LeastExists
    <3>3. QED BY <3>2
  <2> DEFINE rest == DOMAIN groups \ (matching \ {first})
  <2>2. AddSample(groups, s) = Keep(joined, rest)
    BY <1>0, <1>6
  <2>3. joined = [i \in DOMAIN groups |-> IF i = first THEN J ELSE groups[i]]
    BY <1>4, Zenon
  <2>4. first \in DOMAIN groups
    BY <2>1
  <2> HIDE DEF joined, first
  <2>5. /\ joined \in Seq(GroupType) /\ DOMAIN joined = DOMAIN groups
        /\ joined[first] = J
        /\ \A i \in DOMAIN groups \ {first} : joined[i] = groups[i]
    BY <1>1, <1>2, <2>3, <2>4
  <2>6. rest \cap DOMAIN joined = {i \in DOMAIN groups : ~Matches(groups[i], s)} \cup {first}
    BY <2>1, <2>5
  <2>7. {joined[i] : i \in rest \cap DOMAIN joined} = {g \in G : ~Matches(g, s)} \cup {J}
    <3>1. \A i \in rest \cap DOMAIN joined : joined[i] \in {g \in G : ~Matches(g, s)} \cup {J}
      BY <2>1, <2>5, <2>6 DEF ToSet
    <3>2. \A g \in G : ~Matches(g, s) => \E i \in rest \cap DOMAIN joined : joined[i] = g
      BY <2>1, <2>5, <2>6 DEF ToSet
    <3>3. first \in rest \cap DOMAIN joined
      BY <2>1, <2>6
    <3>4. QED BY <2>5, <3>1, <3>2, <3>3
  <2>8. ASSUME Distinct(groups) PROVE DistinctAt(joined, rest)
    BY <1>2, <2>1, <2>5, <2>6, <2>8 DEF Distinct, DistinctAt
  <2> HIDE DEF rest, G
  <2>9. /\ Keep(joined, rest) \in Seq(GroupType)
        /\ ToSet(Keep(joined, rest)) = {joined[i] : i \in rest \cap DOMAIN joined}
        /\ DistinctAt(joined, rest) => Distinct(Keep(joined, rest))
    BY <2>5, KeepFacts
  <2>10. QED BY <2>2, <2>7, <2>8, <2>9 DEF G, J
<1>7. QED BY <1>5, <1>6

(* build_sample_groups is the end of a run that adds one sample after another. *)
AddsAll(f, samples) ==
    f[0] = <<>> /\ \A n \in 1..Len(samples) : f[n] = AddSample(f[n - 1], samples[n])

LEMMA GroupsRun ==
  ASSUME NEW samples \in Seq(Sample)
  PROVE  \E f \in [0..Len(samples) -> Seq(GroupType)] :
            AddsAll(f, samples) /\ build_sample_groups(samples) = f[Len(samples)]
<1> DEFINE N == Len(samples)
           X == Seq(GroupType)
           Turn(n, k) == AddSample(k, samples[n])
           Run(f) == [n \in 0..N |-> IF n = 0 THEN <<>> ELSE Turn(n, f[n - 1])]
           run == CHOOSE f : f = Run(f)
           step == [n \in 1..N |-> [k \in X |-> Turn(n, k)]]
           empty == <<>>
<1>0. build_sample_groups(samples) = run[N]
  BY Zenon DEF build_sample_groups
<1>1. N \in Nat /\ empty \in X
  OBVIOUS
<1>2. \A n \in 1..N, k \in X : Turn(n, k) \in X
  BY AddSampleFacts
<1>3. SUFFICES \E f \in [0..N -> X] :
                   /\ f[0] = empty
                   /\ \A n \in 1..N : f[n] = Turn(n, f[n - 1])
                   /\ run[N] = f[N]
  BY <1>0 DEF AddsAll
<1> HIDE DEF N, X, Turn
<1>4. step \in Steps(N, X)
  BY <1>2 DEF Steps
<1>5. PICK f \in [0..N -> X] : Runs(f, N, empty, step)
  <2> HIDE DEF step, empty
  <2>1. QED BY <1>1, <1>4, Recursion
<1>6. f[0] = empty /\ \A n \in 1..N : f[n] = Turn(n, f[n - 1])
  <2>1. f[0] = empty
    BY <1>5 DEF Runs
  <2>2. ASSUME NEW n \in 1..N PROVE f[n] = Turn(n, f[n - 1])
    <3>1. n - 1 \in 0..N
      BY <1>1
    <3>2. f[n - 1] \in X
      BY <1>5, <3>1
    <3>3. QED BY <1>5, <3>2 DEF Runs
  <2>3. QED BY <2>1, <2>2
<1>7. f = Run(f)
  <2>1. \A n \in 0..N : f[n] = IF n = 0 THEN <<>> ELSE Turn(n, f[n - 1])
    BY <1>1, <1>6
  <2>2. QED BY <1>5, <2>1
<1>8. run = Run(run)
  <2> HIDE DEF Run
  <2>1. QED BY <1>7
<1> HIDE DEF run
<1>9. run[0] = empty /\ \A n \in 1..N : run[n] = Turn(n, run[n - 1])
  <2>1. \A n \in 0..N : run[n] = IF n = 0 THEN <<>> ELSE Turn(n, run[n - 1])
    BY <1>8
  <2>2. QED BY <1>1, <2>1
<1>10. \A n \in 0..N : run[n] = f[n]
  <2> DEFINE Equal == {n \in 0..N : run[n] = f[n]}
  <2>1. 0 \in Equal
    BY <1>1, <1>6, <1>9
  <2>2. ASSUME NEW n \in 0..(N - 1), n \in Equal PROVE n + 1 \in Equal
    <3>1. n + 1 \in 1..N /\ (n + 1) - 1 = n /\ n + 1 \in 0..N
      BY <1>1
    <3>2. run[n + 1] = Turn(n + 1, run[n]) /\ f[n + 1] = Turn(n + 1, f[n])
      BY <1>6, <1>9, <3>1
    <3>3. QED BY <2>2, <3>1, <3>2
  <2> HIDE DEF Equal
  <2>3. \A n \in 0..(N - 1) : n \in Equal => n + 1 \in Equal
    BY <2>2
  <2>4. \A n \in 0..N : n \in Equal
    BY <1>1, <2>1, <2>3, Reaches, Zenon
  <2>5. QED BY <2>4 DEF Equal
<1>11. QED BY <1>1, <1>5, <1>6, <1>10

(* A partition of the samples of S by their groups: what a group knows is what
   its samples tell, no two groups share a tag, and a group is one device. *)
TellsItsOwn(g, S) ==
    /\ g.tags = UNION {TagsOf(s) : s \in Members(g, S)}
    /\ g.keys = UNION {KeysOf(s) : s \in Members(g, S)}
Apart(G) == \A g, h \in G : g # h => g.tags \cap h.tags = {}
IsDevice(g, S) ==
    \A C \in SUBSET S : Closed(S, C) /\ C \cap Members(g, S) # {} => Members(g, S) \subseteq C
Parts(G, S) ==
    /\ G \subseteq GroupType /\ S \subseteq Sample
    /\ \A g \in G : TellsItsOwn(g, S) /\ IsDevice(g, S)
    /\ Apart(G)
    /\ \A s \in S : \E g \in G : Matches(g, s)

(* The members of the groups when there is one sample more. *)
Company(G, S, s) == {u \in S : \E g \in G : Matches(g, s) /\ Matches(g, u)}

LEMMA MembersGrow ==
  ASSUME NEW S, NEW G, Parts(G, S), NEW s \in Sample
  PROVE  /\ \A g \in G : ~Matches(g, s) => Members(g, S \cup {s}) = Members(g, S)
         /\ Members(Gathered(G, s), S \cup {s})
              = {s} \cup Company(G, S, s)
<1> DEFINE J == Gathered(G, s)
<1>0. G \subseteq GroupType /\ S \subseteq Sample
  BY DEF Parts
<1>1. /\ Matches(J, s)
      /\ J.tags = TagsOf(s) \cup UNION {g.tags : g \in {h \in G : Matches(h, s)}}
  BY <1>0, GatheredFacts
<1> HIDE DEF J
<1>2. \A g \in G : ~Matches(g, s) => Members(g, S \cup {s}) = Members(g, S)
  BY DEF Members
<1>3. ASSUME NEW u \in S, Matches(J, u)
      PROVE  \E g \in G : Matches(g, s) /\ Matches(g, u)
  <2>1. PICK h \in G : Matches(h, u)
    BY DEF Parts
  <2>2. TagsOf(u) \subseteq h.tags
    BY <2>1 DEF Parts, TellsItsOwn, Members
  <2>3. PICK x \in TagsOf(u) : x \in J.tags
    BY <1>3 DEF Matches
  <2>4. CASE x \in TagsOf(s)
    BY <2>1, <2>2, <2>3, <2>4 DEF Matches
  <2>5. CASE x \notin TagsOf(s)
    BY <1>1, <2>3, <2>5 DEF Matches
  <2>6. QED BY <2>4, <2>5
<1>4. ASSUME NEW u \in S, NEW g \in G, Matches(g, s), Matches(g, u)
      PROVE  Matches(J, u)
  BY <1>1, <1>4 DEF Matches
<1>5. Members(J, S \cup {s}) = {s} \cup Company(G, S, s)
  BY <1>1, <1>3, <1>4, Zenon DEF Members, Company
<1>6. QED BY <1>2, <1>5 DEF J

(* One sample more makes a partition of one sample more. *)
LEMMA PartsGrow ==
  ASSUME NEW S, NEW G, Parts(G, S), NEW s \in Sample
  PROVE  Parts({g \in G : ~Matches(g, s)} \cup {Gathered(G, s)}, S \cup {s})
<1> DEFINE J == Gathered(G, s)
           M == {h \in G : Matches(h, s)}
           R == {g \in G : ~Matches(g, s)}
           T == S \cup {s}
<1>0. G \subseteq GroupType /\ S \subseteq Sample
  BY DEF Parts
<1>1. /\ J \in GroupType /\ Matches(J, s)
      /\ J.tags = TagsOf(s) \cup UNION {g.tags : g \in M}
      /\ J.keys = KeysOf(s) \cup UNION {g.keys : g \in M}
  BY <1>0, GatheredFacts
<1>2. /\ \A g \in R : Members(g, T) = Members(g, S)
      /\ Members(J, T) = {s} \cup {u \in S : \E g \in M : Matches(g, u)}
  <2>1. /\ \A g \in G : ~Matches(g, s) => Members(g, T) = Members(g, S)
        /\ Members(J, T) = {s} \cup Company(G, S, s)
    BY MembersGrow
  <2>2. Company(G, S, s) = {u \in S : \E g \in M : Matches(g, u)}
    BY DEF Company
  <2> HIDE DEF J, T
  <2>3. QED BY <2>1, <2>2
<1> HIDE DEF J
<1>3. \A g \in G : TellsItsOwn(g, S) /\ IsDevice(g, S)
  BY DEF Parts
<1>4. TellsItsOwn(J, T)
  <2>1. Members(J, T) = {s} \cup UNION {Members(g, S) : g \in M}
    BY <1>2 DEF Members
  <2>2. \A g \in M : /\ g.tags = UNION {TagsOf(u) : u \in Members(g, S)}
                     /\ g.keys = UNION {KeysOf(u) : u \in Members(g, S)}
    BY <1>3 DEF TellsItsOwn
  <2> HIDE DEF M, T
  <2>3. J.tags = UNION {TagsOf(u) : u \in Members(J, T)}
    BY <1>1, <2>1, <2>2
  <2>4. J.keys = UNION {KeysOf(u) : u \in Members(J, T)}
    BY <1>1, <2>1, <2>2
  <2>5. QED BY <2>3, <2>4 DEF TellsItsOwn
<1>5. \A g \in R : TellsItsOwn(g, T)
  BY <1>2, <1>3 DEF TellsItsOwn
<1>6. \A C \in SUBSET T : Closed(T, C) => C \cap S \in SUBSET S /\ Closed(S, C \cap S)
  BY DEF Closed
<1>7. \A g \in R : IsDevice(g, T)
  <2> SUFFICES ASSUME NEW g \in R, NEW C \in SUBSET T, Closed(T, C), C \cap Members(g, T) # {}
               PROVE  Members(g, T) \subseteq C
    BY DEF IsDevice
  <2>1. Members(g, T) = Members(g, S) /\ Members(g, S) \subseteq S
    BY <1>2 DEF Members
  <2>2. (C \cap S) \cap Members(g, S) # {}
    BY <2>1
  <2>3. QED BY <1>3, <1>6, <2>1, <2>2 DEF IsDevice
<1>8. IsDevice(J, T)
  <2> SUFFICES ASSUME NEW C \in SUBSET T, Closed(T, C), C \cap Members(J, T) # {}
               PROVE  Members(J, T) \subseteq C
    BY DEF IsDevice
  <2>1. \A g \in M : Members(g, S) \cap C # {} => Members(g, S) \subseteq C
    <3> TAKE g \in M
    <3>1. Members(g, S) \subseteq S
      BY DEF Members
    <3>2. QED BY <1>3, <1>6, <3>1 DEF IsDevice
  <2>2. \A g \in M : \E u \in Members(g, S) : Touch(s, u) /\ Touch(u, s)
    <3> TAKE g \in M
    <3>1. PICK x \in TagsOf(s) : x \in g.tags
      BY DEF Matches
    <3>2. PICK u \in Members(g, S) : x \in TagsOf(u)
      BY <1>3, <3>1 DEF TellsItsOwn
    <3>3. QED BY <3>1, <3>2 DEF Touch
  <2>3. s \in C
    <3>1. CASE \E u \in S : u \in C /\ \E g \in M : Matches(g, u)
      <4>1. PICK g \in M : Members(g, S) \cap C # {}
        BY <3>1 DEF Members
      <4>2. PICK u \in Members(g, S) : Touch(s, u)
        BY <2>2
      <4>3. u \in C
        BY <2>1, <4>1
      <4>4. QED BY <4>2, <4>3 DEF Closed
    <3>2. QED BY <1>2, <3>1
  <2>4. \A g \in M : Members(g, S) \subseteq C
    <3> TAKE g \in M
    <3>1. PICK u \in Members(g, S) : Touch(u, s)
      BY <2>2
    <3>2. u \in T
      BY DEF Members
    <3>3. u \in C
      BY <2>3, <3>1, <3>2 DEF Closed
    <3>4. QED BY <2>1, <3>3
  <2>5. QED BY <1>2, <2>3, <2>4 DEF Members
<1>9. Apart(R \cup {J})
  <2>1. \A g, h \in G : g # h => g.tags \cap h.tags = {}
    BY DEF Parts, Apart
  <2>2. \A g \in R : g.tags \cap J.tags = {}
    BY <1>1, <2>1 DEF Matches
  <2>3. QED BY <2>1, <2>2 DEF Apart
<1>10. \A u \in T : \E g \in R \cup {J} : Matches(g, u)
  <2> TAKE u \in T
  <2>1. CASE u \in S
    <3>1. PICK g \in G : Matches(g, u)
      BY <2>1 DEF Parts
    <3>2. CASE g \in M
      <4>1. u \in Members(J, T)
        BY <1>2, <2>1, <3>1, <3>2
      <4>2. QED BY <4>1 DEF Members
    <3>3. QED BY <3>1, <3>2
  <2>2. QED BY <1>1, <2>1
<1>11. R \cup {J} \subseteq GroupType /\ T \subseteq Sample
  BY <1>0, <1>1
<1>12. QED BY <1>4, <1>5, <1>7, <1>8, <1>9, <1>10, <1>11 DEF Parts, J

(* The groups of a list are a partition of its samples, each of them once. *)
LEMMA GroupsPart ==
  ASSUME NEW samples \in Seq(Sample)
  PROVE  /\ build_sample_groups(samples) \in Seq(GroupType)
         /\ Distinct(build_sample_groups(samples))
         /\ Parts(ToSet(build_sample_groups(samples)), ToSet(samples))
<1> DEFINE N == Len(samples)
           First(n) == {samples[i] : i \in 1..n}
<1>1. PICK run \in [0..N -> Seq(GroupType)] :
            AddsAll(run, samples) /\ build_sample_groups(samples) = run[N]
  BY GroupsRun
<1> DEFINE Done == {n \in 0..N : Distinct(run[n]) /\ Parts(ToSet(run[n]), First(n))}
<1>2. 0 \in Done
  <2>1. run[0] = <<>>
    BY <1>1 DEF AddsAll
  <2>2. Distinct(<<>>) /\ ToSet(<<>>) = {} /\ First(0) = {}
    BY DEF Distinct, ToSet
  <2>3. Parts({}, {})
    BY DEF Parts, Apart
  <2>4. 0 \in 0..N
    OBVIOUS
  <2> HIDE DEF First
  <2>5. Distinct(run[0]) /\ Parts(ToSet(run[0]), First(0))
    BY <2>1, <2>2, <2>3
  <2>6. QED BY <2>4, <2>5
<1>3. ASSUME NEW n \in 0..(N - 1), n \in Done
      PROVE  n + 1 \in Done
  <2>1. /\ n + 1 \in 1..N /\ (n + 1) - 1 = n /\ n \in 0..N /\ n + 1 \in 0..N
        /\ First(n) \subseteq Sample /\ samples[n + 1] \in Sample
        /\ First(n + 1) = First(n) \cup {samples[n + 1]}
    OBVIOUS
  <2>2. run[n + 1] = AddSample(run[n], samples[n + 1])
    BY <1>1, <2>1 DEF AddsAll
  <2> HIDE DEF First
  <2>3. run[n] \in Seq(GroupType) /\ ToSet(run[n]) \subseteq GroupType
    BY <1>1, <2>1 DEF ToSet
  <2>4. Distinct(run[n + 1])
    BY <1>3, <2>1, <2>2, <2>3, AddSampleFacts
  <2>5. ToSet(run[n + 1]) = {g \in ToSet(run[n]) : ~Matches(g, samples[n + 1])}
                              \cup {Gathered(ToSet(run[n]), samples[n + 1])}
    BY <2>1, <2>2, <2>3, AddSampleFacts
  <2>6. Parts(ToSet(run[n + 1]), First(n) \cup {samples[n + 1]})
    <3> DEFINE G == ToSet(run[n])
               S == First(n)
               x == samples[n + 1]
    <3>1. Parts(G, S) /\ x \in Sample
      BY <1>3, <2>1
    <3> HIDE DEF G, S, x
    <3>2. Parts({g \in G : ~Matches(g, x)} \cup {Gathered(G, x)}, S \cup {x})
      BY <3>1, PartsGrow
    <3>3. QED BY <2>5, <3>2 DEF G, S, x
  <2>7. QED BY <2>1, <2>4, <2>6
<1>4. N \in Done
  <2>1. N \in Nat
    OBVIOUS
  <2> HIDE DEF Done, N
  <2>2. \A n \in 0..(N - 1) : n \in Done => n + 1 \in Done
    BY <1>3
  <2>3. \A n \in 0..N : n \in Done
    BY <1>2, <2>1, <2>2, Reaches, Zenon
  <2>4. QED BY <2>1, <2>3
<1>5. First(N) = ToSet(samples)
  BY DEF ToSet
<1>6. run[N] \in Seq(GroupType)
  BY <1>1
<1>7. QED BY <1>1, <1>4, <1>5, <1>6

(* A sample matches one group, whose members are the samples that a chain of
   common tags connects to it. *)
LEMMA OneGroup ==
  ASSUME NEW S, NEW G, Parts(G, S), NEW s \in S,
         NEW g \in G, NEW h \in G, Matches(g, s), Matches(h, s)
  PROVE  g = h
<1>1. TagsOf(s) \subseteq g.tags /\ TagsOf(s) \subseteq h.tags
  BY DEF Parts, TellsItsOwn, Members
<1>2. TagsOf(s) # {}
  BY TagFacts DEF Parts
<1>3. g.tags \cap h.tags # {}
  BY <1>1, <1>2
<1>4. QED BY <1>3 DEF Parts, Apart

LEMMA MembersClosed ==
  ASSUME NEW S, NEW G, Parts(G, S), NEW g \in G
  PROVE  Closed(S, Members(g, S))
<1> SUFFICES ASSUME NEW s \in S, NEW t \in Members(g, S), Touch(s, t)
             PROVE  s \in Members(g, S)
  BY DEF Closed
<1>1. TagsOf(t) \subseteq g.tags
  BY DEF Parts, TellsItsOwn
<1>2. QED BY <1>1 DEF Touch, Matches, Members

LEMMA MembersConnected ==
  ASSUME NEW S, NEW G, Parts(G, S), NEW g \in G, NEW s \in Members(g, S)
  PROVE  Members(g, S) = Connected(S, {s})
<1>1. Members(g, S) \in SUBSET S /\ {s} \subseteq Members(g, S)
  BY DEF Members
<1>2. Connected(S, {s}) \subseteq Members(g, S)
  BY <1>1, MembersClosed DEF Connected
<1>3. ASSUME NEW u \in Members(g, S), NEW C \in SUBSET S, {s} \subseteq C, Closed(S, C)
      PROVE  u \in C
  <2>1. C \cap Members(g, S) # {}
    BY <1>3
  <2>2. IsDevice(g, S)
    BY DEF Parts
  <2>3. QED BY <1>3, <2>1, <2>2 DEF IsDevice
<1>4. Members(g, S) \subseteq Connected(S, {s})
  BY <1>1, <1>3 DEF Connected
<1>5. QED BY <1>2, <1>4

(* What the code takes for the samples of a key are those of the device. *)
LEMMA GoneIsDevice ==
  ASSUME NEW samples \in Seq(Sample), NEW key
  PROVE  \A s \in ToSet(samples) :
            (key \in KeysOf(s) \/ \E g \in Named(samples, key) : Matches(g, s))
               <=> s \in DeviceOf(ToSet(samples), key)
<1> DEFINE S == ToSet(samples)
           G == ToSet(build_sample_groups(samples))
           N == {g \in G : key \in g.keys}
           T == {s \in S : key \in KeysOf(s)}
           gone == {s \in S : \E g \in N : Matches(g, s)}
<1>1. Parts(G, S)
  BY GroupsPart
<1>2. N = Named(samples, key)
  BY DEF Named
<1> HIDE DEF S, G
<1>3. \A s \in T : s \in gone
  <2> TAKE s \in T
  <2>1. PICK g \in G : Matches(g, s)
    BY <1>1 DEF Parts
  <2>2. key \in g.keys
    BY <1>1, <2>1 DEF Parts, TellsItsOwn, Members
  <2>3. QED BY <2>1, <2>2
<1>4. Closed(S, gone)
  <2> SUFFICES ASSUME NEW s \in S, NEW t \in gone, Touch(s, t)
               PROVE  s \in gone
    BY DEF Closed
  <2>1. PICK g \in N : Matches(g, t)
    OBVIOUS
  <2>2. t \in Members(g, S) /\ Closed(S, Members(g, S))
    BY <1>1, <2>1, MembersClosed DEF Members
  <2>3. s \in Members(g, S)
    BY <2>2 DEF Closed
  <2>4. QED BY <2>3 DEF Members
<1>5. Connected(S, T) \subseteq gone
  BY <1>3, <1>4 DEF Connected
<1>6. ASSUME NEW s \in gone PROVE s \in Connected(S, T)
  <2> SUFFICES ASSUME NEW C \in SUBSET S, T \subseteq C, Closed(S, C)
               PROVE  s \in C
    BY DEF Connected
  <2>1. PICK g \in N : Matches(g, s)
    OBVIOUS
  <2>2. PICK u \in Members(g, S) : key \in KeysOf(u)
    BY <1>1 DEF Parts, TellsItsOwn
  <2>3. u \in C
    BY <2>2 DEF Members
  <2>4. IsDevice(g, S) /\ C \cap Members(g, S) # {} /\ s \in Members(g, S)
    BY <1>1, <2>1, <2>2, <2>3 DEF Parts, Members
  <2>5. QED BY <2>4 DEF IsDevice
<1>7. \A s \in S : (key \in KeysOf(s) \/ \E g \in N : Matches(g, s)) <=> s \in Connected(S, T)
  BY <1>3, <1>5, <1>6
<1>8. QED BY <1>2, <1>7, Zenon DEF DeviceOf, S

(* More samples connect more. *)
LEMMA DeviceGrows ==
  ASSUME NEW S, NEW T, S \subseteq T, NEW key
  PROVE  DeviceOf(S, key) \subseteq DeviceOf(T, key)
<1> SUFFICES ASSUME NEW s \in DeviceOf(S, key), NEW C \in SUBSET T,
                    {u \in T : key \in KeysOf(u)} \subseteq C, Closed(T, C)
             PROVE  s \in C
  BY DEF DeviceOf, Connected
<1>1. C \cap S \in SUBSET S /\ {u \in S : key \in KeysOf(u)} \subseteq C \cap S
  OBVIOUS
<1>2. Closed(S, C \cap S)
  BY DEF Closed
<1>3. QED BY <1>1, <1>2 DEF DeviceOf, Connected

(* A key names one group: clear_history, which takes the first one, takes it. *)
LEMMA KeyNamesOne ==
  ASSUME NEW samples \in Seq(Sample), NEW key,
         NEW g \in Named(samples, key), NEW h \in Named(samples, key)
  PROVE  g = h
<1> DEFINE G == ToSet(build_sample_groups(samples))
           S == ToSet(samples)
<1>1. Parts(G, S) /\ g \in G /\ h \in G /\ key \in g.keys /\ key \in h.keys
  BY GroupsPart DEF Named
<1> HIDE DEF G, S
<1>2. \A k \in {g, h} : \E s \in Members(k, S) : key \in KeysOf(s)
  BY <1>1 DEF Parts, TellsItsOwn
<1>3. key \in g.tags /\ key \in h.tags
  BY <1>1, <1>2, TagFacts DEF Parts, TellsItsOwn, Members
<1>4. QED BY <1>1, <1>3 DEF Parts, Apart

(* The groups of a list of samples are its devices. *)
LEMMA GroupsOfList ==
  ASSUME memory \in Seq(Sample)
  PROVE  GroupsAreDevices
<1> DEFINE groups == build_sample_groups(memory)
           G == ToSet(groups)
           S == ToSet(memory)
<1>1. Parts(G, S) /\ Distinct(groups) /\ groups \in Seq(GroupType)
  BY GroupsPart
<1>2. ASSUME NEW s \in S
      PROVE  Cardinality({i \in DOMAIN groups : Matches(groups[i], s)}) = 1
  <2>1. PICK g \in G : Matches(g, s)
    BY <1>1 DEF Parts
  <2> HIDE DEF S, groups
  <2>2. PICK i \in DOMAIN groups : groups[i] = g
    BY <2>1 DEF ToSet
  <2>3. \A j \in DOMAIN groups : Matches(groups[j], s) => groups[j] = g
    BY <1>1, <2>1, OneGroup DEF ToSet
  <2>4. {j \in DOMAIN groups : Matches(groups[j], s)} = {i}
    BY <1>1, <2>1, <2>2, <2>3 DEF Distinct
  <2>5. QED BY <2>4, FS_Singleton
<1>3. ASSUME NEW g \in G, NEW s \in {u \in S : Matches(g, u)}
      PROVE  {u \in S : Matches(g, u)} = Connected(S, {s})
  <2> HIDE DEF S, G
  <2>1. s \in Members(g, S)
    BY DEF Members
  <2>2. QED BY <1>1, <2>1, MembersConnected DEF Members
<1>4. QED BY <1>2, <1>3, Zenon DEF GroupsAreDevices

-----------------------------------------------------------------------------
(* The inductive invariant. *)

Builder == Popup \cup {"builder"}
Saver == {"reader", "clear", "loader"}
Held(t) == ToSet(held[t])
Pending == IF at["loader"] = "load" THEN FileSamples ELSE Held("loader")

InPlace ==
    /\ at["reader"] \in {"idle", "write", "rename"}
    /\ at["clear"] \in {"idle", "write", "rename", "invalidate"}
    /\ at["loader"] \in {"idle", "load", "write", "rename", "merge"}
    /\ \A t \in Builder : at[t] \in {"idle", "build", "build10d", "set"}
    /\ \A t \in Builder : at[t] \in {"idle", "build"} => held[t] = <<>>
    /\ at["loader"] \in {"idle", "load"} => held["loader"] = <<>>
    /\ \A t \in {"reader", "clear"} : ~Saving(t) => held[t] = <<>>

InOrder ==
    "back" \notin races
      => /\ InOrderOnce(memory)
         /\ \A f \in {file, tmp} \ {NoFile, Unreadable} : InOrderOnce(f.samples)
         /\ \A t \in Saver : InOrderOnce(held[t])

InTime ==
    "back" \notin races
      => \A s \in kept \cup cleared \cup last \cup ToSet(memory) \cup FileSamples
                   \cup Contents(tmp) \cup UNION {Held(t) : t \in Saver} : s.at <= clock

TempIsOwn ==
    "files" \notin races
      => \A t \in Thread : at[t] = "rename" => tmp = [samples |-> held[t], old |-> FALSE]

KeptIsThere ==
    races \cap {"early", "back"} = {}
      => /\ kept \subseteq Pending \cup ToSet(memory)
         /\ \A s \in Pending, u \in ToSet(memory) : s.at < u.at

ClearedIsGone ==
    "late" \notin races => cleared \cap (Pending \cup ToSet(memory) \cup last) = {}

NoClearYet ==
    at["loader"] # "idle" /\ "late" \notin races
      => at["clear"] = "idle" /\ (at["loader"] = "load" => "files" \notin races)

CopiesAreClean ==
    races \cap {"late", "files"} = {}
      => IF Saving("clear") THEN cleared \cap Held("clear") = {}
         ELSE cleared \cap (Held("reader") \cup FileSamples) = {}

ResponsesAreClean ==
    races \cap {"late", "stale"} = {}
      => /\ \A t \in Builder : cleared \cap Held(t) = {}
         /\ at["clear"] = "idle" /\ cache # NoCache => cleared \cap cache = {}

SavesAfterLoad ==
    "partial" \notin races /\ (Saving("reader") \/ Saving("clear")) => at["loader"] = "idle"

CopiesAreWhole ==
    /\ races \cap {"early", "partial", "back"} = {} /\ Saving("reader")
          => kept \subseteq Held("reader")
    /\ races \cap {"early", "partial", "files", "back"} = {} /\ Saving("clear")
          => kept \cap FileSamples \subseteq Held("clear")
    /\ "files" \notin races /\ Saving("loader") => FileSamples \subseteq Held("loader")

IInv ==
    /\ TypeOK /\ InPlace /\ InOrder /\ InTime /\ TempIsOwn
    /\ KeptIsThere /\ ClearedIsGone /\ NoClearYet /\ CopiesAreClean /\ ResponsesAreClean
    /\ SavesAfterLoad /\ CopiesAreWhole

LEMMA BoundsFacts ==
  /\ Retention \in Nat /\ MaxSamples \in Nat /\ MaxClears \in Nat
  /\ MaxBuilds \in Nat /\ MaxMishaps \in Nat
BY HistoryBounds

(* Lists that grow. *)
LEMMA ConcatFacts ==
  ASSUME NEW a \in Seq(Sample), NEW b \in Seq(Sample)
  PROVE  /\ a \o b \in Seq(Sample)
         /\ ToSet(a \o b) = ToSet(a) \cup ToSet(b)
         /\ /\ InOrderOnce(a) /\ InOrderOnce(b)
            /\ \A s \in ToSet(a), u \in ToSet(b) : s.at <= u.at /\ s # u
            => InOrderOnce(a \o b)
         /\ Distinct(a) /\ Distinct(b) /\ ToSet(a) \cap ToSet(b) = {} => Distinct(a \o b)
<1> DEFINE c == a \o b
           m == Len(a)
           n == Len(b)
<1>1. /\ c \in Seq(Sample) /\ m \in Nat /\ n \in Nat
      /\ DOMAIN a = 1..m /\ DOMAIN b = 1..n /\ DOMAIN c = 1..(m + n)
      /\ \A i \in 1..(m + n) : c[i] = IF i <= m THEN a[i] ELSE b[i - m]
  OBVIOUS
<1> HIDE DEF c, m, n
<1>2. /\ \A i \in DOMAIN a : i \in DOMAIN c /\ c[i] = a[i]
      /\ \A j \in DOMAIN b : j + m \in DOMAIN c /\ c[j + m] = b[j]
  <2>1. \A i \in DOMAIN a : i \in DOMAIN c /\ c[i] = a[i]
    BY <1>1
  <2>2. ASSUME NEW j \in DOMAIN b PROVE j + m \in DOMAIN c /\ c[j + m] = b[j]
    <3>1. j \in 1..n /\ j + m \in 1..(m + n) /\ ~(j + m <= m) /\ (j + m) - m = j
      BY <1>1
    <3>2. QED BY <1>1, <3>1
  <2>3. QED BY <2>1, <2>2
<1>3. \A i \in DOMAIN c : \/ i \in DOMAIN a /\ c[i] = a[i]
                          \/ i > m /\ i - m \in DOMAIN b /\ c[i] = b[i - m]
  BY <1>1
<1>4. ToSet(c) = ToSet(a) \cup ToSet(b)
  <2>1. ToSet(c) \subseteq ToSet(a) \cup ToSet(b)
    BY <1>3 DEF ToSet
  <2>2. ToSet(a) \subseteq ToSet(c) /\ ToSet(b) \subseteq ToSet(c)
    BY <1>2 DEF ToSet
  <2>3. QED BY <2>1, <2>2
<1>5. ASSUME InOrderOnce(a), InOrderOnce(b),
             \A s \in ToSet(a), u \in ToSet(b) : s.at <= u.at /\ s # u
      PROVE  InOrderOnce(c)
  <2> SUFFICES ASSUME NEW i \in DOMAIN c, NEW j \in DOMAIN c, i < j
               PROVE  c[i].at <= c[j].at /\ c[i] # c[j]
    BY DEF InOrderOnce
  <2>1. CASE i \in DOMAIN a /\ j \in DOMAIN a
    BY <1>2, <1>5, <2>1 DEF InOrderOnce
  <2>2. CASE i \in DOMAIN a /\ j > m
    <3>1. c[i] = a[i] /\ j - m \in DOMAIN b /\ c[j] = b[j - m]
      BY <1>1, <1>2, <1>3, <2>2
    <3>2. QED BY <1>5, <2>2, <3>1 DEF ToSet
  <2>3. CASE i > m
    <3>1. i - m \in DOMAIN b /\ c[i] = b[i - m] /\ j - m \in DOMAIN b /\ c[j] = b[j - m]
      BY <1>1, <1>3, <2>3
    <3>2. i - m < j - m
      BY <1>1
    <3>3. QED BY <1>5, <3>1, <3>2 DEF InOrderOnce
  <2>4. QED BY <1>1, <1>3, <2>1, <2>2, <2>3
<1>6. ASSUME Distinct(a), Distinct(b), ToSet(a) \cap ToSet(b) = {}
      PROVE  Distinct(c)
  <2> SUFFICES ASSUME NEW i \in DOMAIN c, NEW j \in DOMAIN c, i < j
               PROVE  c[i] # c[j]
    BY <1>1 DEF Distinct
  <2>1. CASE i \in DOMAIN a /\ j \in DOMAIN a
    BY <1>1, <1>2, <1>6, <2>1 DEF Distinct
  <2>2. CASE i \in DOMAIN a /\ j > m
    <3>1. c[i] = a[i] /\ j - m \in DOMAIN b /\ c[j] = b[j - m]
      BY <1>1, <1>2, <1>3, <2>2
    <3>2. a[i] \in ToSet(a) /\ b[j - m] \in ToSet(b)
      BY <2>2, <3>1 DEF ToSet
    <3>3. QED BY <1>6, <3>1, <3>2
  <2>3. CASE i > m
    <3>1. i - m \in DOMAIN b /\ c[i] = b[i - m] /\ j - m \in DOMAIN b /\ c[j] = b[j - m]
      BY <1>1, <1>3, <2>3
    <3>2. i - m # j - m
      BY <1>1
    <3>3. QED BY <1>6, <3>1, <3>2 DEF Distinct
  <2>4. QED BY <1>1, <1>3, <2>1, <2>2, <2>3
<1>7. QED BY <1>1, <1>4, <1>5, <1>6 DEF c

(* sort_by_key: inserting puts a sample into its place. *)
LEMMA InsertFacts ==
  ASSUME NEW list \in Seq(Sample), NEW s \in Sample
  PROVE  /\ Insert(list, s) \in Seq(Sample)
         /\ ToSet(Insert(list, s)) = ToSet(list) \cup {s}
         /\ InOrderOnce(list) /\ s \notin ToSet(list) => InOrderOnce(Insert(list, s))
<1> DEFINE before == {i \in DOMAIN list : list[i].at <= s.at}
           after == DOMAIN list \ before
           b == Keep(list, before)
           c == Keep(list, after)
           one == <<s>>
<1>1. Insert(list, s) = (b \o one) \o c
  BY Zenon DEF Insert
<1>2. \A i \in DOMAIN list : list[i] \in Sample
  OBVIOUS
<1>3. /\ b \in Seq(Sample) /\ ToSet(b) = {list[i] : i \in before \cap DOMAIN list}
      /\ InOrderOnce(list) => InOrderOnce(b)
      /\ c \in Seq(Sample) /\ ToSet(c) = {list[i] : i \in after \cap DOMAIN list}
      /\ InOrderOnce(list) => InOrderOnce(c)
  <2> HIDE DEF before, after
  <2>1. QED BY KeepFacts
<1>4. one \in Seq(Sample) /\ ToSet(one) = {s} /\ InOrderOnce(one)
  BY DEF ToSet, InOrderOnce
<1>5. /\ \A u \in ToSet(b) : u \in ToSet(list) /\ u.at <= s.at
      /\ \A u \in ToSet(c) : u \in ToSet(list) /\ s.at < u.at
      /\ ToSet(list) \subseteq ToSet(b) \cup ToSet(c)
  <2>1. \A u \in ToSet(b) : u \in ToSet(list) /\ u.at <= s.at
    BY <1>3 DEF ToSet
  <2>2. ASSUME NEW u \in ToSet(c) PROVE u \in ToSet(list) /\ s.at < u.at
    <3>1. PICK i \in after \cap DOMAIN list : u = list[i]
      BY <1>3
    <3>2. ~(u.at <= s.at) /\ u \in Sample
      BY <1>2, <3>1
    <3>3. u.at \in Nat /\ s.at \in Nat
      BY <3>2, BoundsFacts DEF Sample
    <3>4. QED BY <3>1, <3>2, <3>3 DEF ToSet
  <2>3. ToSet(list) \subseteq ToSet(b) \cup ToSet(c)
    BY <1>3 DEF ToSet
  <2>4. QED BY <2>1, <2>2, <2>3
<1>6. \A u \in ToSet(list) : u \in Sample
  BY <1>2 DEF ToSet
<1> HIDE DEF b, c, one, before, after
<1> DEFINE d == b \o one
<1>7. /\ d \in Seq(Sample) /\ ToSet(d) = ToSet(b) \cup {s}
      /\ InOrderOnce(b) /\ (\A u \in ToSet(b) : u.at <= s.at /\ u # s) => InOrderOnce(d)
  BY <1>3, <1>4, ConcatFacts
<1> HIDE DEF d
<1>8. /\ d \o c \in Seq(Sample) /\ ToSet(d \o c) = ToSet(d) \cup ToSet(c)
      /\ /\ InOrderOnce(d) /\ InOrderOnce(c)
         /\ \A u \in ToSet(d), v \in ToSet(c) : u.at <= v.at /\ u # v
         => InOrderOnce(d \o c)
  BY <1>3, <1>7, ConcatFacts
<1>9. ASSUME InOrderOnce(list), s \notin ToSet(list) PROVE InOrderOnce(d \o c)
  <2>1. InOrderOnce(d)
    BY <1>3, <1>5, <1>7, <1>9
  <2>2. \A u \in ToSet(d), v \in ToSet(c) : u.at <= v.at /\ u # v
    <3> TAKE u \in ToSet(d), v \in ToSet(c)
    <3>1. u.at <= s.at /\ s.at < v.at /\ u \in Sample /\ v \in Sample
      BY <1>5, <1>6, <1>7 DEF Sample
    <3>2. QED BY <3>1, BoundsFacts DEF Sample
  <2>3. QED BY <1>3, <1>8, <1>9, <2>1, <2>2
<1>10. Insert(list, s) = d \o c
  BY <1>1 DEF d
<1>11. ToSet(Insert(list, s)) = ToSet(list) \cup {s}
  BY <1>5, <1>7, <1>8, <1>10
<1>12. QED BY <1>8, <1>9, <1>10, <1>11

InsertsAll(f, list) ==
    f[0] = <<>> /\ \A n \in 1..Len(list) : f[n] = Insert(f[n - 1], list[n])

LEMMA SortRuns ==
  ASSUME NEW list \in Seq(Sample)
  PROVE  \E f \in [0..Len(list) -> Seq(Sample)] :
            InsertsAll(f, list) /\ Sorted(list) = f[Len(list)]
<1> DEFINE N == Len(list)
           X == Seq(Sample)
           Turn(n, k) == Insert(k, list[n])
           Run(f) == [n \in 0..N |-> IF n = 0 THEN <<>> ELSE Turn(n, f[n - 1])]
           run == CHOOSE f : f = Run(f)
           step == [n \in 1..N |-> [k \in X |-> Turn(n, k)]]
           empty == <<>>
<1>0. Sorted(list) = run[N]
  BY Zenon DEF Sorted
<1>1. N \in Nat /\ empty \in X
  OBVIOUS
<1>2. \A n \in 1..N, k \in X : Turn(n, k) \in X
  BY InsertFacts
<1>3. SUFFICES \E f \in [0..N -> X] :
                   /\ f[0] = empty
                   /\ \A n \in 1..N : f[n] = Turn(n, f[n - 1])
                   /\ run[N] = f[N]
  BY <1>0 DEF InsertsAll
<1> HIDE DEF N, X, Turn
<1>4. step \in Steps(N, X)
  BY <1>2 DEF Steps
<1>5. PICK f \in [0..N -> X] : Runs(f, N, empty, step)
  <2> HIDE DEF step, empty
  <2>1. QED BY <1>1, <1>4, Recursion
<1>6. f[0] = empty /\ \A n \in 1..N : f[n] = Turn(n, f[n - 1])
  <2>1. f[0] = empty
    BY <1>5 DEF Runs
  <2>2. ASSUME NEW n \in 1..N PROVE f[n] = Turn(n, f[n - 1])
    <3>1. n - 1 \in 0..N
      BY <1>1
    <3>2. f[n - 1] \in X
      BY <1>5, <3>1
    <3>3. QED BY <1>5, <3>2 DEF Runs
  <2>3. QED BY <2>1, <2>2
<1>7. f = Run(f)
  <2>1. \A n \in 0..N : f[n] = IF n = 0 THEN <<>> ELSE Turn(n, f[n - 1])
    BY <1>1, <1>6
  <2>2. QED BY <1>5, <2>1
<1>8. run = Run(run)
  <2> HIDE DEF Run
  <2>1. QED BY <1>7
<1> HIDE DEF run
<1>9. run[0] = empty /\ \A n \in 1..N : run[n] = Turn(n, run[n - 1])
  <2>1. \A n \in 0..N : run[n] = IF n = 0 THEN <<>> ELSE Turn(n, run[n - 1])
    BY <1>8
  <2>2. QED BY <1>1, <2>1
<1>10. \A n \in 0..N : run[n] = f[n]
  <2> DEFINE Equal == {n \in 0..N : run[n] = f[n]}
  <2>1. 0 \in Equal
    BY <1>1, <1>6, <1>9
  <2>2. ASSUME NEW n \in 0..(N - 1), n \in Equal PROVE n + 1 \in Equal
    <3>1. n + 1 \in 1..N /\ (n + 1) - 1 = n /\ n + 1 \in 0..N
      BY <1>1
    <3>2. run[n + 1] = Turn(n + 1, run[n]) /\ f[n + 1] = Turn(n + 1, f[n])
      BY <1>6, <1>9, <3>1
    <3>3. QED BY <2>2, <3>1, <3>2
  <2> HIDE DEF Equal
  <2>3. \A n \in 0..(N - 1) : n \in Equal => n + 1 \in Equal
    BY <2>2
  <2>4. \A n \in 0..N : n \in Equal
    BY <1>1, <2>1, <2>3, Reaches, Zenon
  <2>5. QED BY <2>4 DEF Equal
<1>11. QED BY <1>1, <1>5, <1>6, <1>10

LEMMA SortedFacts ==
  ASSUME NEW list \in Seq(Sample)
  PROVE  /\ Sorted(list) \in Seq(Sample) /\ ToSet(Sorted(list)) = ToSet(list)
         /\ Distinct(list) => InOrderOnce(Sorted(list))
<1> DEFINE N == Len(list)
           First(n) == {list[i] : i \in 1..n}
<1>1. PICK run \in [0..N -> Seq(Sample)] : InsertsAll(run, list) /\ Sorted(list) = run[N]
  BY SortRuns
<1> DEFINE Done == {n \in 0..N : /\ ToSet(run[n]) = First(n)
                                 /\ Distinct(list) => InOrderOnce(run[n])}
<1>2. 0 \in Done
  <2>1. run[0] = <<>> /\ ToSet(<<>>) = {} /\ InOrderOnce(<<>>) /\ First(0) = {}
    BY <1>1 DEF InsertsAll, ToSet, InOrderOnce
  <2>2. QED BY <2>1
<1>3. ASSUME NEW n \in 0..(N - 1), n \in Done
      PROVE  n + 1 \in Done
  <2>1. n + 1 \in 1..N /\ (n + 1) - 1 = n /\ n \in 0..N /\ n + 1 \in 0..N
    OBVIOUS
  <2>2. run[n] \in Seq(Sample) /\ list[n + 1] \in Sample
    BY <1>1, <2>1
  <2>3. run[n + 1] = Insert(run[n], list[n + 1])
    BY <1>1, <2>1 DEF InsertsAll
  <2>4. First(n + 1) = First(n) \cup {list[n + 1]}
    <3>1. \A i \in 1..(n + 1) : i \in 1..n \/ i = n + 1
      OBVIOUS
    <3>2. n + 1 \in 1..(n + 1) /\ \A i \in 1..n : i \in 1..(n + 1)
      OBVIOUS
    <3>3. QED BY <3>1, <3>2
  <2>5. Distinct(list) => list[n + 1] \notin First(n)
    BY <2>1 DEF Distinct
  <2>6. ToSet(run[n]) = First(n) /\ (Distinct(list) => InOrderOnce(run[n]))
    BY <1>3
  <2> HIDE DEF First
  <2>7. ToSet(run[n + 1]) = First(n + 1)
    BY <2>2, <2>3, <2>4, <2>6, InsertFacts
  <2>8. Distinct(list) => InOrderOnce(run[n + 1])
    BY <2>2, <2>3, <2>5, <2>6, InsertFacts
  <2>9. QED BY <2>1, <2>7, <2>8
<1>4. N \in Done
  <2>1. N \in Nat
    OBVIOUS
  <2> HIDE DEF Done, N
  <2>2. \A n \in 0..(N - 1) : n \in Done => n + 1 \in Done
    BY <1>3
  <2>3. \A n \in 0..N : n \in Done
    BY <1>2, <2>1, <2>2, Reaches, Zenon
  <2>4. QED BY <2>1, <2>3
<1>5. First(N) = ToSet(list) /\ N \in 0..N
  BY DEF ToSet
<1>6. QED BY <1>1, <1>4, <1>5

(* What merge_samples makes of two lists in their orders. *)
LEMMA MergedFacts ==
  ASSUME NEW a \in Seq(Sample), NEW b \in Seq(Sample)
  PROVE  /\ Merged(a, b) \in Seq(Sample)
         /\ ToSet(Merged(a, b))
              = ToSet(a) \cup {s \in ToSet(b) : \A u \in ToSet(a) : u.at < s.at}
         /\ InOrderOnce(a) /\ InOrderOnce(b) => InOrderOnce(Merged(a, b))
<1> DEFINE I == {i \in DOMAIN b : \A u \in ToSet(a) : u.at < b[i].at}
           k == Keep(b, I)
           later == {s \in ToSet(b) : \A u \in ToSet(a) : u.at < s.at}
<1>1. Merged(a, b) = Sorted(a \o k)
  BY DEF Merged
<1>2. /\ k \in Seq(Sample) /\ ToSet(k) = {b[i] : i \in I \cap DOMAIN b}
      /\ InOrderOnce(b) => InOrderOnce(k)
  <2> HIDE DEF I
  <2>1. QED BY KeepFacts
<1>3. {b[i] : i \in I \cap DOMAIN b} = later
  BY DEF ToSet
<1> HIDE DEF k, I
<1>4. ToSet(k) = later
  BY <1>2, <1>3
<1>5. ToSet(a) \cap ToSet(k) = {}
  <2>1. \A u \in ToSet(a) : u \in Sample
    BY DEF ToSet
  <2>2. \A s \in ToSet(k) : \A u \in ToSet(a) : u.at < s.at
    BY <1>4
  <2>3. QED BY <2>1, <2>2, BoundsFacts DEF Sample
<1>6. InOrderOnce(a) /\ InOrderOnce(b) => Distinct(a) /\ Distinct(k)
  BY <1>2 DEF InOrderOnce, Distinct
<1>7. /\ a \o k \in Seq(Sample) /\ ToSet(a \o k) = ToSet(a) \cup ToSet(k)
      /\ Distinct(a) /\ Distinct(k) => Distinct(a \o k)
  BY <1>2, <1>5, ConcatFacts
<1>8. QED BY <1>1, <1>4, <1>6, <1>7, SortedFacts

-----------------------------------------------------------------------------
(* What becomes of the samples in memory. *)

LEMMA RecordFacts ==
  ASSUME TypeOK, InTime, NEW pass \in Pass, Record(pass),
         NEW new, new = Readings(pass, clock')
  PROVE  /\ clock \in Nat /\ clock' = clock + 1 /\ clock' \in 1..MaxSamples
         /\ new \in Seq(Sample) /\ \A s \in ToSet(new) : s \in Sample /\ s.at = clock + 1
         /\ ToSet(new) \cap (ToSet(memory) \cup last \cup FileSamples \cup kept \cup cleared) = {}
         /\ memory' \in Seq(Sample) /\ ("back" \notin races => InOrderOnce(memory'))
         /\ ToSet(memory') = {s \in ToSet(memory) : Alive(s)} \cup ToSet(new)
         /\ last' \subseteq last \cup ToSet(new)
         /\ kept' = {s \in kept : Alive(s)} \cup ToSet(new)
<1> DEFINE I == {i \in DOMAIN memory : Alive(memory[i])}
           k == Keep(memory, I)
<1>1. clock \in 0..MaxSamples /\ MaxSamples \in Nat /\ memory \in Seq(Sample)
  BY BoundsFacts DEF TypeOK
<1>2. /\ clock' = clock + 1 /\ clock < MaxSamples /\ memory' = k \o new
      /\ ToSet(new) \cap Used = {} /\ kept' = {s \in kept : Alive(s)} \cup ToSet(new)
  BY DEF Record
<1>3. last' \subseteq last \cup ToSet(new)
  <2> DEFINE D == {s \in last : \A i \in DOMAIN pass : Key[s.dev] # Key[pass[i]]}
             J == {i \in DOMAIN pass : \A j \in DOMAIN pass : j > i => Key[pass[j]] # Key[pass[i]]}
  <2>1. last' = D \cup {new[i] : i \in J}
    <3>1. last' = D \cup {Readings(pass, clock')[i] : i \in J}
      BY Zenon DEF Record
    <3> HIDE DEF D, J
    <3>2. QED BY <3>1
  <2>2. DOMAIN new = DOMAIN pass
    BY DEF Readings
  <2>3. D \subseteq last /\ J \subseteq DOMAIN new
    BY <2>2
  <2> HIDE DEF D, J
  <2>4. QED BY <2>1, <2>3 DEF ToSet
<1>4. /\ new \in Seq(Sample) /\ InOrderOnce(new)
      /\ \A s \in ToSet(new) : s \in Sample /\ s.at = clock + 1
  <2>1. pass \in Seq(Device) /\ IsInjective(pass)
    BY PassAssumption
  <2> DEFINE N == Len(pass)
  <2>2. N \in Nat /\ DOMAIN pass = 1..N /\ \A i \in 1..N : pass[i] \in Device
    BY <2>1
  <2> HIDE DEF N
  <2>3. /\ DOMAIN new = 1..N
        /\ \A i \in 1..N : new[i] = [at |-> clock + 1, dev |-> pass[i]] /\ new[i] \in Sample
    BY <1>1, <1>2, <2>2 DEF Readings, Sample
  <2>4. new \in Seq(Sample)
    <3>1. new = [i \in 1..N |-> new[i]]
      BY <2>2 DEF Readings
    <3>2. new \in [1..N -> Sample]
      BY <2>3, <3>1
    <3>3. QED BY <2>2, <3>2
  <2>5. \A i, j \in 1..N : pass[i] = pass[j] => i = j
    BY <2>1, <2>2 DEF IsInjective
  <2>6. \A i, j \in 1..N : i < j => new[i].at <= new[j].at /\ new[i] # new[j]
    <3> TAKE i, j \in 1..N
    <3> HAVE i < j
    <3>1. pass[i] # pass[j]
      BY <2>2, <2>5
    <3>2. new[i].dev = pass[i] /\ new[j].dev = pass[j]
          /\ new[i].at = clock + 1 /\ new[j].at = clock + 1
      BY <2>3
    <3>3. new[i] # new[j]
      BY <3>1, <3>2
    <3>4. QED BY <1>1, <3>2, <3>3
  <2>7. InOrderOnce(new)
    BY <2>3, <2>6 DEF InOrderOnce
  <2>8. \A s \in ToSet(new) : s \in Sample /\ s.at = clock + 1
    BY <2>3 DEF ToSet
  <2>9. QED BY <2>4, <2>7, <2>8
<1>5. k \in Seq(Sample) /\ ToSet(k) = {memory[i] : i \in I \cap DOMAIN memory}
        /\ (InOrderOnce(memory) => InOrderOnce(k))
  <2> HIDE DEF I
  <2>1. QED BY <1>1, KeepFacts
<1>6. {memory[i] : i \in I \cap DOMAIN memory} = {s \in ToSet(memory) : Alive(s)}
  BY DEF ToSet
<1> HIDE DEF k, I
<1>7. ToSet(k) = {s \in ToSet(memory) : Alive(s)}
  BY <1>5, <1>6
<1>8. ASSUME "back" \notin races PROVE \A s \in ToSet(k), u \in ToSet(new) : s.at <= u.at /\ s # u
  <2> TAKE s \in ToSet(k), u \in ToSet(new)
  <2>1. s \in ToSet(memory)
    BY <1>7
  <2>2. s \in Sample
    BY <1>1, <2>1 DEF ToSet
  <2>3. s.at <= clock /\ s.at \in Nat
    BY <1>1, <1>8, <2>1, <2>2 DEF InTime, Sample
  <2>4. QED BY <1>1, <1>4, <2>3
<1>9. memory' \in Seq(Sample) /\ ToSet(memory') = ToSet(k) \cup ToSet(new)
  BY <1>2, <1>4, <1>5, ConcatFacts
<1>10. ASSUME "back" \notin races PROVE InOrderOnce(memory')
  <2>1. InOrderOnce(memory)
    BY <1>10 DEF TypeOK
  <2>2. QED BY <1>2, <1>4, <1>5, <1>8, <1>10, <2>1, ConcatFacts
<1>11. clock \in Nat /\ clock' \in 1..MaxSamples
  BY <1>1, <1>2
<1>12. QED BY <1>2, <1>3, <1>4, <1>7, <1>9, <1>10, <1>11 DEF Used

LEMMA ClearsFacts ==
  ASSUME TypeOK, NEW gone, NEW meant, NEW known, Clears(gone, meant, known)
  PROVE  /\ memory' \in Seq(Sample) /\ (InOrderOnce(memory) => InOrderOnce(memory'))
         /\ ToSet(memory') = ToSet(memory) \ gone
         /\ last' = last \ gone /\ kept' = kept \ meant /\ cleared' = cleared \cup known
         /\ at["clear"] = "idle" /\ at' = [at EXCEPT !["clear"] = "write"]
         /\ held' = [held EXCEPT !["clear"] = memory']
<1> DEFINE I == {i \in DOMAIN memory : memory[i] \notin gone}
<1>1. memory \in Seq(Sample)
  BY DEF TypeOK
<1>2. memory' = Keep(memory, I)
  BY DEF Clears
<1>3. memory' \in Seq(Sample) /\ ToSet(memory') = {memory[i] : i \in I \cap DOMAIN memory}
        /\ (InOrderOnce(memory) => InOrderOnce(memory'))
  <2> HIDE DEF I
  <2>1. QED BY <1>1, <1>2, KeepFacts
<1>4. {memory[i] : i \in I \cap DOMAIN memory} = ToSet(memory) \ gone
  BY DEF ToSet
<1>5. QED BY <1>3, <1>4 DEF Clears, Forgets, Goes

(* What a clear removes is what it is meant to remove. *)
Removes(gone, meant, known) ==
    known \subseteq gone \cap ToSet(memory) /\ ToSet(memory) \cap gone \cap kept \subseteq meant

LEMMA ClearRemoves ==
  ASSUME TypeOK, ClearAll \/ \E d \in Device : ClearDevice(Key[d])
  PROVE  \E gone, meant, known : Clears(gone, meant, known) /\ Removes(gone, meant, known)
<1>1. memory \in Seq(Sample)
  BY DEF TypeOK
<1>2. CASE ClearAll
  <2>1. Clears(ToSet(memory) \cup last, kept, ToSet(memory))
    BY <1>2 DEF ClearAll
  <2>2. Removes(ToSet(memory) \cup last, kept, ToSet(memory))
    BY DEF Removes
  <2>3. QED BY <2>1, <2>2
<1>3. CASE \E d \in Device : ClearDevice(Key[d])
  <2>1. PICK d \in Device : ClearDevice(Key[d])
    BY <1>3
  <2> DEFINE key == Key[d]
             meant == DeviceOf(kept \cup ToSet(memory), key)
             known == DeviceOf(ToSet(memory), key)
  <2>2. Clears(Gone(key), meant, known)
    BY <2>1 DEF ClearDevice
  <2> HIDE DEF key
  <2>3. known \subseteq ToSet(memory)
    BY DEF DeviceOf, Connected
  <2>4. known \subseteq meant
    BY DeviceGrows
  <2> HIDE DEF meant
  <2>5. \A s \in ToSet(memory) : s \in Gone(key) <=> s \in known
    <3> HIDE DEF known
    <3>1. \A s \in ToSet(memory) : s \in Gone(key)
             <=> (key \in KeysOf(s) \/ \E g \in Named(memory, key) : Matches(g, s))
      BY DEF Gone
    <3>2. \A s \in ToSet(memory) :
             (key \in KeysOf(s) \/ \E g \in Named(memory, key) : Matches(g, s)) <=> s \in known
      BY <1>1, GoneIsDevice DEF known
    <3>3. QED BY <3>1, <3>2
  <2> HIDE DEF known
  <2>6. Removes(Gone(key), meant, known)
    BY <2>3, <2>4, <2>5 DEF Removes
  <2>7. QED BY <2>2, <2>6
<1>4. QED BY <1>2, <1>3

(* Type correctness. *)

Location == {"idle", "load", "write", "rename", "merge", "invalidate", "build", "build10d", "set"}

LEMMA FileFacts ==
  ASSUME TypeOK
  PROVE  /\ \A f \in {file, tmp} \ {NoFile, Unreadable} :
               f \in File /\ f.samples \in Seq(Sample) /\ f.old \in BOOLEAN
         /\ FileSamples \subseteq Sample /\ Contents(tmp) \subseteq Sample
         /\ ToSet(memory) \subseteq Sample
         /\ \A t \in Thread : Held(t) \subseteq Sample
<1>1. \A f \in {file, tmp} \ {NoFile, Unreadable} :
               f \in File /\ f.samples \in Seq(Sample) /\ f.old \in BOOLEAN
  BY DEF TypeOK, File
<1>2. \A list \in Seq(Sample) : ToSet(list) \subseteq Sample
  BY DEF ToSet
<1>3. FileSamples \subseteq Sample /\ Contents(tmp) \subseteq Sample
  BY <1>1, <1>2 DEF FileSamples, Contents
<1>4. memory \in Seq(Sample) /\ \A t \in Thread : held[t] \in Seq(Sample)
  BY DEF TypeOK
<1>5. QED BY <1>1, <1>2, <1>3, <1>4 DEF Held

LEMMA TypeSaves ==
  ASSUME TypeOK, NEW t \in Thread, Write(t) \/ Rename(t) \/ SaveFails(t)
  PROVE  TypeOK'
<1>1. held[t] \in Seq(Sample) /\ AfterSave(t) \in Location /\ at \in [Thread -> Location]
  BY DEF TypeOK, AfterSave, Location
<1>2. CASE Write(t)
  <2>1. [samples |-> held[t], old |-> FALSE] \in File
    BY <1>1 DEF File
  <2>2. {file', tmp'} \ {NoFile, Unreadable} \subseteq File
    BY <1>2, <2>1 DEF TypeOK, Write
  <2>3. races' \subseteq {"early", "partial", "late", "files", "stale", "back"}
    BY <1>2 DEF TypeOK, Write, Meets
  <2>6. "back" \in races => "back" \in races'
    BY <1>2 DEF Write
  <2>4. at' \in [Thread -> Location]
    BY <1>1, <1>2 DEF Write, Goes, Location
  <2>5. QED BY <1>2, <2>2, <2>3, <2>4, <2>6 DEF TypeOK, Write, store, bounds, Location, InOrderOnce
<1>3. CASE Rename(t)
  <2>1. held' \in [Thread -> Seq(Sample)]
    BY <1>3 DEF TypeOK, Rename
  <2>2. {file', tmp'} \ {NoFile, Unreadable} \subseteq File
    BY <1>3 DEF TypeOK, Rename
  <2>3. races' \subseteq {"early", "partial", "late", "files", "stale", "back"}
    BY <1>3 DEF TypeOK, Rename, Meets
  <2>6. "back" \in races => "back" \in races'
    BY <1>3 DEF Rename, Settled
  <2>4. at' \in [Thread -> Location]
    BY <1>1, <1>3 DEF Rename, Goes
  <2>5. QED BY <1>3, <2>1, <2>2, <2>3, <2>4, <2>6
            DEF TypeOK, Rename, store, bounds, Location, InOrderOnce
<1>4. CASE SaveFails(t)
  <2>1. held' \in [Thread -> Seq(Sample)]
    BY <1>4 DEF TypeOK, SaveFails
  <2>2. mishaps' \in 0..MaxMishaps /\ clears' = clears /\ builds' = builds
    BY <1>4, BoundsFacts DEF TypeOK, SaveFails, Mishap, bounds
  <2>3. races' \subseteq {"early", "partial", "late", "files", "stale", "back"}
    BY <1>4 DEF TypeOK, SaveFails, Meets
  <2>6. "back" \in races => "back" \in races'
    BY <1>4 DEF SaveFails, Settled
  <2>4. at' \in [Thread -> Location]
    BY <1>1, <1>4 DEF SaveFails, Location
  <2>5. QED BY <1>4, <2>1, <2>2, <2>3, <2>4, <2>6
            DEF TypeOK, SaveFails, store, disk, Location, InOrderOnce
<1>5. QED BY <1>2, <1>3, <1>4

LEMMA TypeLoads ==
  ASSUME TypeOK, InOrder, Load \/ Merge
  PROVE  TypeOK'
<1>0. "loader" \in Thread /\ at \in [Thread -> Location] /\ held \in [Thread -> Seq(Sample)]
  BY DEF TypeOK, Thread, Location
<1>1. CASE Load
  <2>1. at' \in [Thread -> Location]
    BY <1>0, <1>1 DEF Load, Location
  <2>2. memory' \in Seq(Sample) /\ ("back" \notin races' => InOrderOnce(memory'))
    <3>1. memory \in Seq(Sample) /\ ("back" \notin races' => InOrderOnce(memory))
      BY <1>1 DEF TypeOK, Load
    <3>2. <<>> \in Seq(Sample) /\ InOrderOnce(<<>>)
      BY DEF InOrderOnce
    <3>3. memory' = memory \/ memory' = <<>>
      BY <1>1 DEF Load
    <3>4. QED BY <3>1, <3>2, <3>3
  <2>3. held' \in [Thread -> Seq(Sample)]
    BY <1>0, <1>1, FileFacts DEF Load
  <2>4. {file', tmp'} \ {NoFile, Unreadable} \subseteq File
    BY <1>1 DEF TypeOK, Load
  <2>5. races' \subseteq {"early", "partial", "late", "files", "stale", "back"}
    BY <1>1 DEF TypeOK, Load
  <2>6. QED BY <1>1, <2>1, <2>2, <2>3, <2>4, <2>5 DEF TypeOK, Load, bounds, Location, InOrderOnce
<1>2. CASE Merge
  <2>1. at' \in [Thread -> Location]
    BY <1>0, <1>2 DEF Merge, Goes, Location
  <2>2. memory' \in Seq(Sample) /\ ("back" \notin races' => InOrderOnce(memory'))
    <3>0. "back" \in races => "back" \in races'
      BY <1>2 DEF Merge, Settled
    <3>1. memory \in Seq(Sample) /\ ("back" \notin races' => InOrderOnce(memory))
      BY <3>0 DEF TypeOK
    <3>2. /\ held["loader"] \in Seq(Sample)
          /\ "back" \notin races' => InOrderOnce(held["loader"])
      BY <1>0, <3>0 DEF InOrder, Saver
    <3>3. QED BY <1>2, <3>1, <3>2, MergedFacts DEF Merge
  <2>3. held' \in [Thread -> Seq(Sample)]
    BY <1>0, <1>2 DEF Merge
  <2>4. last' \subseteq Sample
    BY <1>2, <2>2 DEF Merge, Newest, ToSet
  <2>5. races' \subseteq {"early", "partial", "late", "files", "stale", "back"}
    BY <1>2 DEF TypeOK, Merge
  <2>6. QED BY <1>2, <2>1, <2>2, <2>3, <2>4, <2>5
            DEF TypeOK, Merge, disk, bounds, Location, InOrderOnce
<1>3. QED BY <1>1, <1>2

LEMMA TypeRecord ==
  ASSUME TypeOK, InTime, NEW pass \in Pass, Record(pass)
  PROVE  TypeOK'
<1> DEFINE new == Readings(pass, clock')
<1>0. "reader" \in Thread /\ at \in [Thread -> Location] /\ held \in [Thread -> Seq(Sample)]
  BY DEF TypeOK, Thread, Location
<1>1. /\ clock' \in 1..MaxSamples /\ \A s \in ToSet(new) : s \in Sample
      /\ memory' \in Seq(Sample) /\ ("back" \notin races => InOrderOnce(memory'))
      /\ last' \subseteq last \cup ToSet(new)
      /\ kept' = {s \in kept : Alive(s)} \cup ToSet(new)
  <2> HIDE DEF new
  <2>1. new = Readings(pass, clock')
    BY DEF new
  <2>2. QED BY <2>1, RecordFacts
<1> HIDE DEF new
<1>2. last' \subseteq Sample /\ kept' \subseteq Sample
  BY <1>1 DEF TypeOK
<1>3. at' \in [Thread -> Location] /\ held' \in [Thread -> Seq(Sample)]
  <2>1. CASE UNCHANGED <<at, held>>
    BY <1>0, <2>1
  <2>2. CASE Goes("reader", "idle", "write") /\ held' = [held EXCEPT !["reader"] = memory']
    BY <1>0, <1>1, <2>2 DEF Goes, Location
  <2>3. QED BY <2>1, <2>2 DEF Record
<1>4. due' = FALSE /\ clock' \in 0..MaxSamples
  BY <1>1, BoundsFacts DEF Record
<1>5. /\ races' \subseteq {"early", "partial", "late", "files", "stale", "back"}
      /\ "back" \in races => "back" \in races'
  BY DEF TypeOK, Record
<1>6. UNCHANGED <<file, tmp, cache, gate, cleared, clears, builds, mishaps>>
  BY DEF Record, disk, bounds
<1>7. QED BY <1>1, <1>2, <1>3, <1>4, <1>5, <1>6 DEF TypeOK, Location, InOrderOnce

(* The clock is set back: from then on the order is not known. *)
LEMMA TypeBack ==
  ASSUME TypeOK, StepBack
  PROVE  TypeOK'
<1>1. mishaps' \in 0..MaxMishaps /\ clears' = clears /\ builds' = builds
  BY BoundsFacts DEF TypeOK, StepBack, Mishap
<1>2. clock' \in 0..MaxSamples
  BY BoundsFacts DEF TypeOK, StepBack
<1>3. QED BY <1>1, <1>2 DEF TypeOK, StepBack, store, disk

LEMMA TypeClear ==
  ASSUME TypeOK, NEW gone, NEW meant, NEW known,
         Clears(gone, meant, known), Removes(gone, meant, known)
  PROVE  TypeOK'
<1>0. "clear" \in Thread /\ at \in [Thread -> Location] /\ held \in [Thread -> Seq(Sample)]
      /\ ("back" \notin races => InOrderOnce(memory)) /\ ToSet(memory) \subseteq Sample
  BY DEF TypeOK, Thread, Location, ToSet
<1>1. /\ memory' \in Seq(Sample) /\ ("back" \notin races => InOrderOnce(memory'))
      /\ last' = last \ gone /\ kept' = kept \ meant /\ cleared' = cleared \cup known
      /\ at' = [at EXCEPT !["clear"] = "write"]
      /\ held' = [held EXCEPT !["clear"] = memory']
  BY <1>0, ClearsFacts
<1>2. last' \subseteq Sample /\ kept' \subseteq Sample /\ cleared' \subseteq Sample
  BY <1>0, <1>1 DEF TypeOK, Removes
<1>3. at' \in [Thread -> Location] /\ held' \in [Thread -> Seq(Sample)]
  BY <1>0, <1>1 DEF Location
<1>4. clears' \in 0..MaxClears /\ builds' = builds /\ mishaps' = mishaps
  BY BoundsFacts DEF TypeOK, Clears
<1>5. races' \subseteq {"early", "partial", "late", "files", "stale", "back"}
  BY DEF TypeOK, Clears
<1>6. "back" \in races => "back" \in races'
  BY DEF Clears
<1>7. QED BY <1>1, <1>2, <1>3, <1>4, <1>5, <1>6 DEF TypeOK, Clears, disk, Location, InOrderOnce

(* The steps of those who build responses, and of the end of a clear. *)
Reading == \/ \E t \in Thread : Build(t) \/ SetCache(t)
           \/ \E p \in Popup : Get(p)
           \/ Precompute \/ Invalidate \/ SettingsChange

LEMMA TypeReading ==
  ASSUME TypeOK, Reading
  PROVE  TypeOK'
<1>0. /\ at \in [Thread -> Location] /\ held \in [Thread -> Seq(Sample)]
      /\ "clear" \in Thread /\ "builder" \in Thread /\ Popup \subseteq Thread
      /\ {"idle", "build", "build10d", "set", "invalidate"} \subseteq Location
  BY DEF TypeOK, Thread, Location
<1>1. ASSUME NEW t \in Thread, Build(t) PROVE TypeOK'
  <2> DEFINE I == {i \in DOMAIN memory : memory[i] \notin ToSet(held[t])}
  <2>1. at' \in [Thread -> Location]
    BY <1>0, <1>1 DEF Build, Goes
  <2>2. Keep(memory, I) \in Seq(Sample)
    <3> HIDE DEF I
    <3>1. memory \in Seq(Sample)
      BY DEF TypeOK
    <3>2. QED BY <3>1, KeepFacts
  <2>3. held' = [held EXCEPT ![t] = held[t] \o Keep(memory, I)]
    BY <1>0, <1>1 DEF Build
  <2> HIDE DEF I
  <2>4. held[t] \o Keep(memory, I) \in Seq(Sample)
    BY <1>0, <2>2
  <2>5. held' \in [Thread -> Seq(Sample)]
    BY <1>0, <2>3, <2>4
  <2>6. QED BY <1>1, <2>1, <2>5
            DEF TypeOK, Build, store, disk, history, bounds, Location, InOrderOnce
<1>2. ASSUME NEW t \in Thread, SetCache(t) PROVE TypeOK'
  <2>1. at' \in [Thread -> Location] /\ held' \in [Thread -> Seq(Sample)]
    BY <1>0, <1>2 DEF SetCache, Goes
  <2>2. cache' \subseteq Sample /\ gate' \in Popup \cup {NoCache}
    BY <1>0, <1>2 DEF TypeOK, SetCache, ToSet
  <2>3. QED BY <1>2, <2>1, <2>2
            DEF TypeOK, SetCache, store, disk, history, bounds, Location, InOrderOnce
<1>3. ASSUME NEW p \in Popup, Get(p) PROVE TypeOK'
  <2>1. at' \in [Thread -> Location]
    BY <1>0, <1>3 DEF Get, Goes
  <2>2. builds' \in 0..MaxBuilds /\ clears' = clears /\ mishaps' = mishaps /\ gate' = p
    BY <1>3, BoundsFacts DEF TypeOK, Get, Builds
  <2>3. QED BY <1>3, <2>1, <2>2 DEF TypeOK, Get, store, disk, history, Location, InOrderOnce
<1>4. CASE Precompute
  <2>1. at' \in [Thread -> Location]
    BY <1>0, <1>4 DEF Precompute, Goes
  <2>2. builds' \in 0..MaxBuilds /\ clears' = clears /\ mishaps' = mishaps
    BY <1>4, BoundsFacts DEF TypeOK, Precompute, Builds
  <2>3. QED BY <1>4, <2>1, <2>2 DEF TypeOK, Precompute, store, disk, history, Location, InOrderOnce
<1>5. CASE Invalidate
  <2>1. at' \in [Thread -> Location]
    BY <1>0, <1>5 DEF Invalidate, Goes
  <2>2. QED BY <1>5, <2>1
            DEF TypeOK, Invalidate, store, disk, history, bounds, Location, InOrderOnce
<1>6. CASE SettingsChange
  BY <1>6 DEF TypeOK, SettingsChange, store, disk, history, bounds, InOrderOnce
<1>7. QED BY <1>1, <1>2, <1>3, <1>4, <1>5, <1>6 DEF Reading

LEMMA TypeRestart ==
  ASSUME TypeOK, Restart
  PROVE  TypeOK'
<1>1. at' \in [Thread -> Location] /\ held' \in [Thread -> Seq(Sample)]
  BY DEF Restart, Location
<1>2. mishaps' \in 0..MaxMishaps /\ clears' = clears /\ builds' = builds
  BY BoundsFacts DEF TypeOK, Restart, Mishap
<1>3. kept' \subseteq Sample /\ cleared' \subseteq Sample
  BY FileFacts DEF TypeOK, Restart
<1>4. memory' = <<>> /\ InOrderOnce(<<>>)
  BY DEF Restart, InOrderOnce
<1>5. QED BY <1>1, <1>2, <1>3, <1>4 DEF TypeOK, Restart, disk, Location, InOrderOnce

-----------------------------------------------------------------------------
(* The steps of a save. *)

(* A thread that goes on leaves the other ones where they are. *)
LEMMA GoesFacts ==
  ASSUME TypeOK, NEW t \in Thread, NEW from, NEW to, Goes(t, from, to)
  PROVE  at[t] = from /\ at'[t] = to /\ \A u \in Thread \ {t} : at'[u] = at[u]
BY DEF TypeOK, Goes

LEMMA SaversAreThreads ==
  /\ Saver \subseteq Thread /\ Builder \subseteq Thread
  /\ Thread = Saver \cup Builder /\ Saver \cap Builder = {}
BY DistinctThreads DEF Saver, Builder, Thread

(* Until the loader has read the file, nobody but the reader can be saving. *)
LEMMA LonelyReader ==
  ASSUME InPlace, at["loader"] = "load", at["clear"] = "idle", NEW t \in Thread, Saving(t)
  PROVE  t = "reader" /\ Alone(t)
<1>1. \A u \in Thread : Saving(u) => u = "reader"
  BY SaversAreThreads DEF InPlace, Saving, Saver
<1>2. QED BY <1>1 DEF Alone

LEMMA WriteKeeps ==
  ASSUME IInv, NEW t \in Thread, Write(t)
  PROVE  /\ InPlace' /\ InOrder' /\ InTime' /\ TempIsOwn' /\ KeptIsThere' /\ ClearedIsGone'
         /\ NoClearYet' /\ CopiesAreClean' /\ ResponsesAreClean' /\ SavesAfterLoad'
         /\ CopiesAreWhole'
<1> USE SaversAreThreads DEF IInv
<1>1. at[t] = "write" /\ at'[t] = "rename" /\ \A u \in Thread \ {t} : at'[u] = at[u]
  BY GoesFacts DEF Write
<1>2. t \in Saver
  BY <1>1 DEF InPlace
<1>3. UNCHANGED <<memory, last, file, cache, held, clock, kept, cleared>>
  BY DEF Write, store
<1>4. races' = races \cup Meets(t)
  BY DEF Write
<1>5. \/ tmp' = [samples |-> held[t], old |-> FALSE]
      \/ tmp' = Unreadable /\ ~Alone(t)
  BY DEF Write
<1>6. \A u \in Thread : /\ Saving(u)' <=> Saving(u)
                        /\ at'[u] = "idle" <=> at[u] = "idle"
                        /\ at'[u] = "load" <=> at[u] = "load"
  BY <1>1 DEF Saving
<1>7. "files" \notin races' => Alone(t)
  BY <1>4 DEF Meets
<1>8. \A r \in {"early", "late", "stale", "partial", "back"} : r \in races' <=> r \in races
  BY <1>4 DEF Meets
<1>9. "files" \in races => "files" \in races'
  BY <1>4
<1>10. InPlace'
  BY <1>1, <1>2, <1>3, <1>6 DEF InPlace, Saver
<1>11. InOrder'
  BY <1>2, <1>3, <1>5, <1>8 DEF InOrder
<1>12. InTime'
  <2>1. Contents(tmp') \subseteq Held(t)
    BY <1>5 DEF Contents, Held
  <2>2. QED BY <1>2, <1>3, <1>8, <2>1 DEF InTime, FileSamples, Held
<1>13. TempIsOwn'
  BY <1>1, <1>3, <1>5, <1>7 DEF TempIsOwn, Alone, Saving
<1>14. KeptIsThere' /\ ClearedIsGone'
  BY <1>3, <1>6, <1>8 DEF KeptIsThere, ClearedIsGone, Pending, FileSamples, Held, Saver
<1>15. NoClearYet'
  <2>1. at["loader"] = "load" /\ at["clear"] = "idle" => Alone(t)
    BY <1>1, LonelyReader DEF Saving
  <2>2. at["loader"] = "load" /\ at["clear"] = "idle" => races' = races
    BY <1>4, <2>1 DEF Meets
  <2>3. QED BY <1>6, <1>8, <2>2 DEF NoClearYet, Saver
<1>16. CopiesAreClean' /\ ResponsesAreClean'
  BY <1>3, <1>6, <1>8, <1>9
     DEF CopiesAreClean, ResponsesAreClean, FileSamples, Held, Saver, Builder
<1>17. SavesAfterLoad' /\ CopiesAreWhole'
  BY <1>3, <1>6, <1>8, <1>9 DEF SavesAfterLoad, CopiesAreWhole, FileSamples, Held, Saver
<1>18. QED BY <1>10, <1>11, <1>12, <1>13, <1>14, <1>15, <1>16, <1>17

(* A save that ends, well or not. *)
LEMMA LeaveFacts ==
  ASSUME TypeOK, InPlace, NEW t \in Thread, Rename(t) \/ SaveFails(t)
  PROVE  /\ t \in Saver /\ Saving(t) /\ ~Saving(t)'
         /\ t = "reader" => at'[t] = "idle"
         /\ t = "loader" => at'[t] = "merge"
         /\ t = "clear" => at'[t] \in {"idle", "invalidate"}
         /\ held'[t] = IF t = "loader" THEN held[t] ELSE <<>>
         /\ \A u \in Thread \ {t} : /\ at'[u] = at[u] /\ held'[u] = held[u]
                                    /\ Saving(u)' <=> Saving(u)
         /\ UNCHANGED <<memory, last, cache, clock, kept, cleared>>
<1> USE SaversAreThreads
<1>1. at \in [Thread -> Location] /\ held \in [Thread -> Seq(Sample)]
  BY DEF TypeOK, Location
<1>2. Saving(t)
  BY DEF Rename, SaveFails, Saving, Goes
<1>3. t \in Saver
  BY <1>2 DEF InPlace, Saving
<1>4. at' = [at EXCEPT ![t] = AfterSave(t)] \/ (t = "clear" /\ at' = [at EXCEPT ![t] = "idle"])
  BY DEF Rename, SaveFails, Goes
<1>5. /\ t = "reader" => at'[t] = "idle"
      /\ t = "loader" => at'[t] = "merge"
      /\ t = "clear" => at'[t] \in {"idle", "invalidate"}
  BY <1>1, <1>4 DEF AfterSave
<1>6. \A u \in Thread \ {t} : at'[u] = at[u]
  BY <1>1, <1>4
<1>7. held' = IF t = "loader" THEN held ELSE [held EXCEPT ![t] = <<>>]
  BY DEF Rename, SaveFails
<1>8. /\ held'[t] = IF t = "loader" THEN held[t] ELSE <<>>
      /\ \A u \in Thread \ {t} : held'[u] = held[u]
  BY <1>1, <1>7
<1>9. ~Saving(t)' /\ \A u \in Thread \ {t} : Saving(u)' <=> Saving(u)
  BY <1>3, <1>5, <1>6 DEF Saving, Saver
<1>10. UNCHANGED <<memory, last, cache, clock, kept, cleared>>
  BY DEF Rename, SaveFails, store
<1>11. QED BY <1>2, <1>3, <1>5, <1>6, <1>8, <1>9, <1>10

(* What it notes. *)
LEMMA LeaveNotes ==
  ASSUME NEW t \in Thread, Rename(t) \/ SaveFails(t)
  PROVE  /\ \A r \in {"early", "late", "stale", "files", "back"} : r \in races => r \in races'
         /\ "files" \notin races' => Alone(t)
         /\ "partial" \in races /\ "partial" \notin races'
               => at'["loader"] = "idle" /\ \A u \in Thread : ~Saving(u)'
         /\ t # "clear" /\ Alone(t) /\ "files" \notin races => "files" \notin races'
<1>1. races' \in {((races \ Settled) \cup Meets(t)) \cup X :
                     X \in {{}, {"early"}, {"files", "stale"}}}
  BY DEF Rename, SaveFails
<1>2. Settled \subseteq {"partial"}
      /\ (Settled # {} => at'["loader"] = "idle" /\ \A u \in Thread : ~Saving(u)')
  BY DEF Settled, Saving
<1>3. Meets(t) = IF Alone(t) THEN {} ELSE {"files"}
  BY DEF Meets
<1>4. t # "clear" => races' \in {((races \ Settled) \cup Meets(t)) \cup X : X \in {{}, {"early"}}}
  BY DEF Rename, SaveFails
<1>5. QED BY <1>1, <1>2, <1>3, <1>4

LEMMA LeaveKeeps ==
  ASSUME IInv, NEW t \in Thread, Rename(t) \/ SaveFails(t)
  PROVE  InPlace' /\ TempIsOwn' /\ NoClearYet' /\ SavesAfterLoad' /\ CopiesAreWhole'
<1> USE SaversAreThreads DEF IInv
<1>1. /\ t \in Saver /\ Saving(t) /\ ~Saving(t)'
      /\ t = "reader" => at'[t] = "idle"
      /\ t = "loader" => at'[t] = "merge"
      /\ t = "clear" => at'[t] \in {"idle", "invalidate"}
      /\ held'[t] = IF t = "loader" THEN held[t] ELSE <<>>
      /\ \A u \in Thread \ {t} : /\ at'[u] = at[u] /\ held'[u] = held[u]
                                 /\ Saving(u)' <=> Saving(u)
      /\ UNCHANGED <<memory, last, cache, clock, kept, cleared>>
  BY LeaveFacts
<1>2. /\ \A r \in {"early", "late", "stale", "files", "back"} : r \in races => r \in races'
      /\ "files" \notin races' => Alone(t)
      /\ "partial" \in races /\ "partial" \notin races'
            => at'["loader"] = "idle" /\ \A u \in Thread : ~Saving(u)'
      /\ t # "clear" /\ Alone(t) /\ "files" \notin races => "files" \notin races'
  BY LeaveNotes
<1>3. InPlace'
  BY <1>1 DEF InPlace, Saver
<1>4. "files" \notin races' => \A u \in Thread : ~Saving(u)'
  BY <1>1, <1>2 DEF Alone
<1>5. TempIsOwn'
  BY <1>4 DEF TempIsOwn, Saving
<1>6. NoClearYet'
  <2> SUFFICES ASSUME at'["loader"] # "idle", "late" \notin races'
               PROVE  at'["clear"] = "idle" /\ (at'["loader"] = "load" => "files" \notin races')
    BY DEF NoClearYet
  <2>1. at["loader"] # "idle" /\ "late" \notin races
    BY <1>1, <1>2 DEF Saving, Saver
  <2>2. at["clear"] = "idle" /\ (at["loader"] = "load" => "files" \notin races)
    BY <2>1 DEF NoClearYet
  <2>3. t # "clear" /\ at'["clear"] = "idle"
    BY <1>1, <2>2 DEF Saving, Saver
  <2>4. ASSUME at'["loader"] = "load" PROVE "files" \notin races'
    <3>1. at["loader"] = "load"
      BY <1>1, <2>4 DEF Saver
    <3>2. Alone(t)
      BY <1>1, <2>2, <3>1, LonelyReader
    <3>3. QED BY <1>2, <2>2, <2>3, <3>1, <3>2
  <2>5. QED BY <2>3, <2>4
<1>7. SavesAfterLoad'
  BY <1>1, <1>2 DEF SavesAfterLoad, Saver, Saving
<1>8. CopiesAreWhole'
  <2>1. ASSUME races' \cap {"early", "partial", "back"} = {}, Saving("reader")'
        PROVE  kept' \subseteq Held("reader")'
    <3>1. t # "reader" /\ Saving("reader")
      BY <1>1, <2>1 DEF Saver
    <3>2. races \cap {"early", "partial", "back"} = {}
      BY <1>2, <2>1 DEF Saver
    <3>3. QED BY <1>1, <3>1, <3>2 DEF CopiesAreWhole, Held, Saver
  <2>2. "files" \notin races' => ~Saving("clear")' /\ ~Saving("loader")'
    BY <1>4 DEF Saver
  <2> HIDE DEF IInv
  <2>3. QED BY <2>1, <2>2 DEF CopiesAreWhole
<1>9. QED BY <1>3, <1>5, <1>6, <1>7, <1>8

LEMMA RenameKeeps ==
  ASSUME IInv, NEW t \in Thread, Rename(t)
  PROVE  IInv'
<1> USE SaversAreThreads DEF IInv
<1>1. /\ t \in Saver /\ Saving(t) /\ ~Saving(t)'
      /\ t = "reader" => at'[t] = "idle"
      /\ t = "loader" => at'[t] = "merge"
      /\ t = "clear" => at'[t] = "invalidate"
      /\ held'[t] = IF t = "loader" THEN held[t] ELSE <<>>
      /\ \A u \in Thread \ {t} : /\ at'[u] = at[u] /\ held'[u] = held[u]
                                 /\ Saving(u)' <=> Saving(u)
      /\ UNCHANGED <<memory, last, cache, clock, kept, cleared>>
  BY LeaveFacts, GoesFacts DEF Rename, AfterSave
<1>2. /\ \A r \in {"early", "late", "stale", "files", "back"} : r \in races => r \in races'
      /\ "files" \notin races' => Alone(t)
  BY LeaveNotes
<1>3. file' = tmp /\ tmp' = NoFile /\ at[t] = "rename"
  BY DEF Rename, Goes
<1>4. FileSamples' = Contents(tmp)
  BY <1>3 DEF FileSamples, Contents
<1>5. \A u \in Saver : Held(u)' \subseteq Held(u)
  BY <1>1 DEF Held, ToSet
<1>6. "files" \notin races' => /\ Contents(tmp) \subseteq Held(t)
                               /\ \A u \in Saver \ {t} : ~Saving(u)
  <2>1. ASSUME "files" \notin races' PROVE tmp = [samples |-> held[t], old |-> FALSE]
    BY <1>2, <1>3, <2>1 DEF TempIsOwn
  <2>2. "files" \notin races' => Contents(tmp) \subseteq Held(t)
    BY <2>1 DEF Contents, Held
  <2>3. QED BY <1>2, <2>2 DEF Alone
<1>7. InPlace' /\ TempIsOwn' /\ NoClearYet' /\ SavesAfterLoad' /\ CopiesAreWhole'
  BY LeaveKeeps
<1>8. TypeOK'
  BY TypeSaves
<1>9. InOrder'
  <2>1. "back" \notin races' => \A u \in Saver : InOrderOnce(held'[u])
    BY <1>1, <1>2 DEF InOrder, InOrderOnce
  <2>2. QED BY <1>1, <1>2, <1>3, <2>1 DEF InOrder
<1>10. InTime'
  <2>1. Contents(tmp)' = {}
    BY <1>3 DEF Contents
  <2>2. (UNION {Held(u) : u \in Saver})' \subseteq UNION {Held(u) : u \in Saver}
    BY <1>5
  <2>3. QED BY <1>1, <1>2, <1>4, <2>1, <2>2 DEF InTime
<1>11. at["loader"] # "load" => Pending' = Pending
  BY <1>1 DEF Pending, Saver, Held, InPlace, Saving
<1>12. KeptIsThere'
  <2>1. at["loader"] = "load" => "early" \in races'
    BY DEF Rename
  <2>2. QED BY <1>1, <1>2, <1>11, <2>1 DEF KeptIsThere
<1>13. ClearedIsGone'
  <2> SUFFICES ASSUME "late" \notin races'
               PROVE  cleared \cap (Pending' \cup ToSet(memory) \cup last) = {}
    BY <1>1 DEF ClearedIsGone
  <2>1. "late" \notin races /\ cleared \cap (Pending \cup ToSet(memory) \cup last) = {}
    BY <1>2 DEF ClearedIsGone
  <2>2. CASE at["loader"] = "load"
    <3>1. at["clear"] = "idle" /\ "files" \notin races
      BY <2>1, <2>2 DEF NoClearYet
    <3>2. t = "reader"
      BY <1>1, <2>2, <3>1, LonelyReader
    <3>3. at'["loader"] = "load" /\ Pending' = FileSamples'
      BY <1>1, <2>2, <3>2 DEF Pending, Saver
    <3>4. tmp = [samples |-> held[t], old |-> FALSE]
      BY <1>3, <3>1 DEF TempIsOwn
    <3>5. Contents(tmp) \subseteq Held("reader")
      BY <3>2, <3>4 DEF Contents, Held
    <3>6. cleared \cap Held("reader") = {}
      BY <2>1, <3>1 DEF CopiesAreClean, Saving
    <3>7. QED BY <1>4, <2>1, <3>3, <3>5, <3>6
  <2>3. QED BY <1>11, <2>1, <2>2
<1>14. CopiesAreClean'
  <2> SUFFICES ASSUME races' \cap {"late", "files"} = {}
               PROVE  ~Saving("clear")' /\ cleared \cap (Held("reader")' \cup Contents(tmp)) = {}
    BY <1>1, <1>4 DEF CopiesAreClean
  <2>1. races \cap {"late", "files"} = {} /\ \A u \in Saver \ {t} : ~Saving(u)
    BY <1>2, <1>6
  <2>2. ~Saving("clear")'
    BY <1>1, <2>1 DEF Saver
  <2>3. cleared \cap Held("reader")' = {}
    <3>1. CASE t = "clear"
      BY <1>1, <2>1, <3>1 DEF InPlace, Held, ToSet, Saver
    <3>2. CASE t # "clear"
      BY <1>5, <2>1, <3>2 DEF CopiesAreClean, Saver
    <3>3. QED BY <3>1, <3>2
  <2>4. cleared \cap Held(t) = {}
    <3>1. CASE t = "clear"
      BY <1>1, <2>1, <3>1 DEF CopiesAreClean
    <3>2. CASE t = "reader"
      BY <2>1, <3>2 DEF CopiesAreClean, Saver
    <3>3. CASE t = "loader"
      BY <1>1, <2>1, <3>3 DEF ClearedIsGone, Pending, Saving
    <3>4. QED BY <1>1, <3>1, <3>2, <3>3 DEF Saver
  <2>5. Contents(tmp) \subseteq Held(t)
    BY <1>6
  <2>6. QED BY <2>2, <2>3, <2>4, <2>5
<1>15. ResponsesAreClean'
  <2>1. at'["clear"] = "idle" => at["clear"] = "idle"
    BY <1>1 DEF Saver
  <2>2. \A u \in Builder : Held(u)' = Held(u)
    BY <1>1 DEF Held
  <2>3. QED BY <1>1, <1>2, <2>1, <2>2 DEF ResponsesAreClean
<1>16. QED BY <1>7, <1>8, <1>9, <1>10, <1>12, <1>13, <1>14, <1>15

LEMMA SaveFailsKeeps ==
  ASSUME IInv, NEW t \in Thread, SaveFails(t)
  PROVE  IInv'
<1> USE SaversAreThreads DEF IInv
<1>1. /\ t \in Saver /\ Saving(t) /\ ~Saving(t)'
      /\ t = "reader" => at'[t] = "idle"
      /\ t = "loader" => at'[t] = "merge"
      /\ t = "clear" => at'[t] \in {"idle", "invalidate"}
      /\ held'[t] = IF t = "loader" THEN held[t] ELSE <<>>
      /\ \A u \in Thread \ {t} : /\ at'[u] = at[u] /\ held'[u] = held[u]
                                 /\ Saving(u)' <=> Saving(u)
      /\ UNCHANGED <<memory, last, cache, clock, kept, cleared>>
  BY LeaveFacts
<1>2. /\ \A r \in {"early", "late", "stale", "files", "back"} : r \in races => r \in races'
      /\ "files" \notin races' => Alone(t)
  BY LeaveNotes
<1>3. UNCHANGED <<file, tmp>> /\ (t = "clear" => {"files", "stale"} \subseteq races')
  BY DEF SaveFails, disk
<1>4. FileSamples' = FileSamples /\ Contents(tmp)' = Contents(tmp)
  BY <1>3 DEF FileSamples, Contents
<1>5. \A u \in Saver : Held(u)' \subseteq Held(u)
  BY <1>1 DEF Held, ToSet
<1>6. InPlace' /\ TempIsOwn' /\ NoClearYet' /\ SavesAfterLoad' /\ CopiesAreWhole'
  BY LeaveKeeps
<1>7. TypeOK'
  BY TypeSaves
<1>8. InOrder'
  <2>1. "back" \notin races' => \A u \in Saver : InOrderOnce(held'[u])
    BY <1>1, <1>2 DEF InOrder, InOrderOnce
  <2>2. QED BY <1>1, <1>2, <1>3, <2>1 DEF InOrder
<1>9. InTime'
  <2>1. (UNION {Held(u) : u \in Saver})' \subseteq UNION {Held(u) : u \in Saver}
    BY <1>5
  <2>2. QED BY <1>1, <1>2, <1>4, <2>1 DEF InTime
<1>10. Pending' = Pending
  BY <1>1, <1>4 DEF Pending, Saver, Held, InPlace, Saving
<1>11. KeptIsThere' /\ ClearedIsGone'
  BY <1>1, <1>2, <1>10 DEF KeptIsThere, ClearedIsGone
<1>12. CopiesAreClean'
  <2> SUFFICES ASSUME races' \cap {"late", "files"} = {}
               PROVE  /\ ~Saving("clear")'
                      /\ cleared \cap (Held("reader")' \cup FileSamples) = {}
    BY <1>1, <1>4 DEF CopiesAreClean
  <2>1. t # "clear" /\ ~Saving("clear") /\ ~Saving("clear")'
    BY <1>1, <1>2, <1>3 DEF Alone, Saver
  <2>2. races \cap {"late", "files"} = {}
    BY <1>2
  <2>3. QED BY <1>5, <2>1, <2>2 DEF CopiesAreClean, Saver
<1>13. ResponsesAreClean'
  <2>1. "stale" \notin races' /\ at'["clear"] = "idle" => at["clear"] = "idle"
    BY <1>1, <1>3 DEF Saver
  <2>2. \A u \in Builder : Held(u)' = Held(u)
    BY <1>1 DEF Held
  <2>3. QED BY <1>1, <1>2, <2>1, <2>2 DEF ResponsesAreClean
<1>14. QED BY <1>6, <1>7, <1>8, <1>9, <1>11, <1>12, <1>13

-----------------------------------------------------------------------------
(* The steps of the loader. *)

LEMMA LoadFacts ==
  ASSUME TypeOK, InPlace, Load
  PROVE  /\ at["loader"] = "load" /\ at'["loader"] \in {"idle", "write", "merge"}
         /\ \A u \in Thread \ {"loader"} : /\ at'[u] = at[u] /\ held'[u] = held[u]
                                           /\ Saving(u)' <=> Saving(u)
         /\ FileSamples' = FileSamples /\ Held("loader")' = FileSamples /\ Pending = FileSamples
         /\ at'["loader"] = "idle" => held'["loader"] = <<>>
         /\ \/ held'["loader"] = <<>>
            \/ held'["loader"] = file.samples /\ file \notin {NoFile, Unreadable}
         /\ memory' \in {memory, <<>>} /\ file' \in {file, NoFile}
         /\ races \subseteq races' /\ races' \subseteq races \cup {"early"}
         /\ "early" \notin races' => memory' = memory
         /\ UNCHANGED <<last, tmp, cache, clock, kept, cleared>>
<1>0. "loader" \in Thread /\ at \in [Thread -> Location] /\ held \in [Thread -> Seq(Sample)]
  BY DEF TypeOK, Thread, Location
<1>1. /\ at["loader"] = "load" /\ held["loader"] = <<>>
      /\ UNCHANGED <<last, tmp, cache, clock, kept, cleared>>
  BY DEF Load, InPlace
<1>2. Pending = FileSamples
  BY <1>1 DEF Pending
<1>3. \E to \in {"idle", "write", "merge"} : at' = [at EXCEPT !["loader"] = to]
  BY DEF Load
<1>4. \A u \in Thread \ {"loader"} : at'[u] = at[u]
  BY <1>0, <1>3
<1>5. \A u \in Thread \ {"loader"} : Saving(u)' <=> Saving(u)
  BY <1>4 DEF Saving
<1>6. at'["loader"] \in {"idle", "write", "merge"}
  BY <1>0, <1>3
<1>7. CASE file \in {NoFile, Unreadable}
  <2>1. held' = held /\ file' \in {file, NoFile} /\ file' \in {NoFile, Unreadable}
    BY <1>7, DistinctFiles DEF Load
  <2>2. FileSamples' = {} /\ FileSamples = {} /\ Held("loader")' = {}
    BY <1>1, <1>7, <2>1 DEF FileSamples, Contents, Held, ToSet
  <2>3. /\ memory' \in {memory, <<>>}
        /\ races \subseteq races' /\ races' \subseteq races \cup {"early"}
        /\ "early" \notin races' => memory' = memory
    BY <1>7, DistinctFiles DEF Load
  <2>4. QED BY <1>1, <1>2, <1>4, <1>5, <1>6, <2>1, <2>2, <2>3
<1>8. CASE file \notin {NoFile, Unreadable}
  <2>1. /\ held' = [held EXCEPT !["loader"] = file.samples] /\ UNCHANGED <<memory, file, races>>
        /\ at' = [at EXCEPT !["loader"] = IF file.old THEN "write" ELSE "merge"]
    BY <1>8 DEF Load
  <2>2. held'["loader"] = file.samples /\ \A u \in Thread \ {"loader"} : held'[u] = held[u]
    BY <1>0, <2>1
  <2>3. at'["loader"] # "idle"
    BY <1>0, <2>1
  <2>4. FileSamples' = FileSamples /\ Held("loader")' = FileSamples
    BY <1>8, <2>1, <2>2 DEF FileSamples, Contents, Held
  <2>5. QED BY <1>1, <1>2, <1>4, <1>5, <1>6, <1>8, <2>1, <2>2, <2>3, <2>4
<1>9. QED BY <1>7, <1>8

LEMMA LoadKeeps ==
  ASSUME IInv, Load
  PROVE  IInv'
<1> USE SaversAreThreads DEF IInv
<1>1. /\ at["loader"] = "load" /\ at'["loader"] \in {"idle", "write", "merge"}
      /\ \A u \in Thread \ {"loader"} : /\ at'[u] = at[u] /\ held'[u] = held[u]
                                        /\ Saving(u)' <=> Saving(u)
      /\ FileSamples' = FileSamples /\ Held("loader")' = FileSamples /\ Pending = FileSamples
      /\ at'["loader"] = "idle" => held'["loader"] = <<>>
      /\ \/ held'["loader"] = <<>>
         \/ held'["loader"] = file.samples /\ file \notin {NoFile, Unreadable}
      /\ memory' \in {memory, <<>>} /\ file' \in {file, NoFile}
      /\ races \subseteq races' /\ races' \subseteq races \cup {"early"}
      /\ "early" \notin races' => memory' = memory
      /\ UNCHANGED <<last, tmp, cache, clock, kept, cleared>>
  BY LoadFacts
<1>2. TypeOK'
  BY TypeLoads
<1>3. \A u \in Thread \ {"loader"} : Held(u)' = Held(u)
  BY <1>1 DEF Held
<1>4. Contents(tmp)' = Contents(tmp) /\ ToSet(memory') \subseteq ToSet(memory)
  BY <1>1 DEF Contents, ToSet
<1>5. Pending' = FileSamples
  BY <1>1, <1>3 DEF Pending, Saver
<1>6. InPlace'
  BY <1>1 DEF InPlace, Saver
<1>7. InOrder'
  <2>1. "back" \notin races' => \A u \in Saver : InOrderOnce(held'[u])
    BY <1>1 DEF InOrder, InOrderOnce
  <2>2. "back" \notin races' => InOrderOnce(memory')
    BY <1>1 DEF InOrder, InOrderOnce
  <2>3. QED BY <1>1, <2>1, <2>2 DEF InOrder
<1>8. InTime'
  <2>1. (UNION {Held(u) : u \in Saver})' \subseteq FileSamples \cup UNION {Held(u) : u \in Saver}
    BY <1>1, <1>3
  <2>2. QED BY <1>1, <1>4, <2>1 DEF InTime
<1>9. TempIsOwn'
  BY <1>1 DEF TempIsOwn
<1>10. KeptIsThere' /\ ClearedIsGone'
  BY <1>1, <1>4, <1>5 DEF KeptIsThere, ClearedIsGone
<1>11. NoClearYet'
  BY <1>1 DEF NoClearYet, Saver
<1>12. CopiesAreClean' /\ ResponsesAreClean'
  BY <1>1, <1>3 DEF CopiesAreClean, ResponsesAreClean, Saver
<1>13. SavesAfterLoad'
  BY <1>1 DEF SavesAfterLoad, Saver
<1>14. CopiesAreWhole'
  BY <1>1, <1>3 DEF CopiesAreWhole, Saver
<1>15. QED BY <1>2, <1>6, <1>7, <1>8, <1>9, <1>10, <1>11, <1>12, <1>13, <1>14

LEMMA MergeKeeps ==
  ASSUME IInv, Merge
  PROVE  IInv'
<1> USE SaversAreThreads DEF IInv
<1>0. "loader" \in Thread /\ held \in [Thread -> Seq(Sample)] /\ memory \in Seq(Sample)
  BY DEF TypeOK, Saver
<1>1. /\ at["loader"] = "merge" /\ at'["loader"] = "idle"
      /\ \A u \in Thread \ {"loader"} : at'[u] = at[u]
  BY <1>0, GoesFacts DEF Merge
<1>2. held'["loader"] = <<>> /\ \A u \in Thread \ {"loader"} : held'[u] = held[u]
  BY <1>0 DEF Merge
<1>3. UNCHANGED <<file, tmp, cache, clock, kept, cleared>> /\ races' = races \ Settled
  BY DEF Merge, disk
<1>4. /\ memory' \in Seq(Sample) /\ ("back" \notin races => InOrderOnce(memory'))
      /\ ToSet(memory') = Held("loader")
            \cup {s \in ToSet(memory) : \A u \in Held("loader") : u.at < s.at}
  BY <1>0, MergedFacts DEF Merge, InOrder, Saver, Held
<1>5. last' \subseteq ToSet(memory')
  BY DEF Merge, Newest
<1>6. \A u \in Thread : Saving(u)' <=> Saving(u)
  BY <1>1 DEF Saving
<1>7. \A u \in Thread \ {"loader"} : Held(u)' = Held(u)
  BY <1>2 DEF Held
<1>8. Held("loader")' = {} /\ Pending' = {} /\ Pending = Held("loader")
  BY <1>1, <1>2 DEF Held, Pending, ToSet
<1>9. FileSamples' = FileSamples /\ Contents(tmp)' = Contents(tmp)
  BY <1>3 DEF FileSamples, Contents
<1>10. /\ \A r \in {"early", "late", "stale", "files", "back"} : r \in races' <=> r \in races
       /\ "partial" \in races /\ "partial" \notin races' => \A u \in Thread : ~Saving(u)'
  BY <1>3 DEF Settled, Saving
<1>11. TypeOK'
  BY TypeLoads
<1>12. InPlace'
  BY <1>1, <1>2, <1>6 DEF InPlace, Saver
<1>13. InOrder'
  BY <1>2, <1>3, <1>4, <1>10 DEF InOrder, InOrderOnce
<1>14. InTime'
  <2>1. (UNION {Held(u) : u \in Saver})' \subseteq UNION {Held(u) : u \in Saver}
    BY <1>7, <1>8
  <2>2. ToSet(memory') \cup last' \subseteq ToSet(memory) \cup UNION {Held(u) : u \in Saver}
    BY <1>4, <1>5 DEF Saver
  <2>3. QED BY <1>3, <1>9, <1>10, <2>1, <2>2 DEF InTime
<1>15. TempIsOwn'
  BY <1>1, <1>2, <1>3, <1>10 DEF TempIsOwn
<1>16. KeptIsThere'
  BY <1>3, <1>4, <1>8, <1>10 DEF KeptIsThere
<1>17. ClearedIsGone'
  BY <1>3, <1>4, <1>5, <1>8, <1>10 DEF ClearedIsGone
<1>18. NoClearYet' /\ SavesAfterLoad'
  BY <1>1 DEF NoClearYet, SavesAfterLoad
<1>19. CopiesAreClean' /\ ResponsesAreClean'
  BY <1>1, <1>3, <1>6, <1>7, <1>9, <1>10 DEF CopiesAreClean, ResponsesAreClean, Saver
<1>20. CopiesAreWhole'
  <2>1. ~Saving("loader")'
    BY <1>1 DEF Saving
  <2>2. QED BY <1>3, <1>6, <1>7, <1>9, <1>10, <2>1 DEF CopiesAreWhole, Saver
<1>21. QED BY <1>11, <1>12, <1>13, <1>14, <1>15, <1>16, <1>17, <1>18, <1>19, <1>20

-----------------------------------------------------------------------------
(* The steps that change the memory. *)

LEMMA RecordKeeps ==
  ASSUME IInv, NEW pass \in Pass, Record(pass)
  PROVE  IInv'
<1> USE SaversAreThreads DEF IInv
<1> DEFINE added == Readings(pass, clock')
           new == ToSet(added)
<1>0. at \in [Thread -> Location] /\ held \in [Thread -> Seq(Sample)]
  BY DEF TypeOK, Location
<1>1. /\ clock \in Nat /\ clock' = clock + 1 /\ clock' \in 1..MaxSamples
      /\ \A s \in new : s \in Sample /\ s.at = clock + 1
      /\ new \cap (ToSet(memory) \cup last \cup FileSamples \cup kept \cup cleared) = {}
      /\ memory' \in Seq(Sample) /\ ("back" \notin races => InOrderOnce(memory'))
      /\ ToSet(memory') = {s \in ToSet(memory) : Alive(s)} \cup new
      /\ last' \subseteq last \cup new
      /\ kept' = {s \in kept : Alive(s)} \cup new
  <2> HIDE DEF added
  <2>1. added = Readings(pass, clock')
    BY DEF added
  <2> HIDE DEF IInv
  <2>2. TypeOK /\ InTime
    BY DEF IInv
  <2>3. QED BY <2>1, <2>2, RecordFacts
<1> HIDE DEF new
<1>2. /\ ToSet(memory') \subseteq ToSet(memory) \cup new /\ last' \subseteq last \cup new
      /\ kept' \subseteq kept \cup new
      /\ \A s \in kept' : s \in new \/ (s \in kept /\ (s \in ToSet(memory) => s \in ToSet(memory')))
      /\ new \subseteq ToSet(memory')
  BY <1>1
<1>3. UNCHANGED <<file, tmp, cache, cleared>> /\ at["reader"] = "idle"
  BY DEF Record, disk
<1>4. /\ races \subseteq races' /\ races' \subseteq races \cup {"partial"}
      /\ at'["reader"] = "write" /\ at["loader"] # "idle" => "partial" \in races'
  BY DEF Record
<1>5. \/ UNCHANGED <<at, held>>
      \/ at'["reader"] = "write" /\ held'["reader"] = memory'
  BY <1>0 DEF Record, Goes, Saver
<1>6. \A u \in Thread \ {"reader"} : at'[u] = at[u] /\ held'[u] = held[u]
  BY <1>0 DEF Record, Goes
<1>7. /\ \A u \in Thread \ {"reader"} : Held(u)' = Held(u) /\ (Saving(u)' <=> Saving(u))
      /\ ~Saving("reader") /\ Held("reader") = {}
      /\ \/ Held("reader")' = {} /\ ~Saving("reader")'
         \/ Held("reader")' = ToSet(memory') /\ at'["reader"] = "write"
  BY <1>3, <1>5, <1>6 DEF Held, Saving, InPlace, ToSet
<1>8. FileSamples' = FileSamples /\ Contents(tmp)' = Contents(tmp) /\ Pending' = Pending
  BY <1>3, <1>6, <1>7 DEF FileSamples, Contents, Pending, Saver
<1>9. /\ "back" \notin races => \A s \in Pending, u \in new : s.at < u.at
      /\ new \cap cleared = {} /\ new \cap FileSamples = {}
  <2>1. Pending \subseteq FileSamples \cup UNION {Held(t) : t \in Saver}
    BY DEF Pending, Saver
  <2>2. \A s \in Pending : s \in Sample
    BY FileFacts, <2>1
  <2>3. "back" \notin races => \A s \in Pending : s.at <= clock
    BY <2>1 DEF InTime
  <2>4. "back" \notin races => \A s \in Pending, u \in new : s.at < u.at
    <3> SUFFICES ASSUME "back" \notin races, NEW s \in Pending, NEW u \in new PROVE s.at < u.at
      OBVIOUS
    <3>1. s.at \in Nat /\ s.at <= clock /\ u.at = clock + 1
      BY <1>1, <2>2, <2>3, BoundsFacts DEF Sample
    <3>2. QED BY <1>1, <3>1
  <2>5. QED BY <1>1, <2>4
<1>10. TypeOK'
  BY TypeRecord
<1>11. InPlace'
  <2>1. CASE UNCHANGED <<at, held>>
    BY <2>1 DEF InPlace, Saving
  <2>2. CASE at'["reader"] = "write" /\ held'["reader"] = memory'
    <3>1. Saving("reader")'
      BY <2>2 DEF Saving
    <3>2. \A u \in Thread \ {"reader"} : at'[u] = at[u] /\ held'[u] = held[u]
                                        /\ (Saving(u)' <=> Saving(u))
      BY <1>6, <1>7
    <3>3. QED BY <2>2, <3>1, <3>2 DEF InPlace, Saver
  <2>3. QED BY <1>5, <2>1, <2>2
<1>12. InOrder'
  <2>1. "back" \notin races' => \A u \in Saver : InOrderOnce(held'[u])
    BY <1>1, <1>4, <1>5, <1>6 DEF InOrder
  <2>2. QED BY <1>1, <1>3, <1>4, <2>1 DEF InOrder
<1>13. InTime'
  <2> DEFINE old == kept \cup cleared \cup last \cup ToSet(memory) \cup FileSamples
                       \cup Contents(tmp) \cup UNION {Held(t) : t \in Saver}
  <2>1. \A s \in old : s \in Sample
    BY FileFacts DEF TypeOK
  <2>2. "back" \notin races => \A s \in old : s.at <= clock
    BY DEF InTime
  <2>3. (UNION {Held(t) : t \in Saver})' \subseteq old \cup new
    BY <1>2, <1>7
  <2>4. (kept \cup cleared \cup last \cup ToSet(memory) \cup FileSamples \cup Contents(tmp))'
           \subseteq old \cup new
    BY <1>2, <1>3, <1>8
  <2> HIDE DEF old
  <2>5. "back" \notin races => \A s \in old \cup new : s.at <= clock'
    <3> SUFFICES ASSUME "back" \notin races, NEW s \in old \cup new PROVE s.at <= clock'
      OBVIOUS
    <3>1. CASE s \in old
      <4>1. s.at \in Nat /\ s.at <= clock
        BY <2>1, <2>2, <3>1, BoundsFacts DEF Sample
      <4>2. QED BY <1>1, <4>1
    <3>2. CASE s \in new
      BY <1>1, <3>2
    <3>3. QED BY <3>1, <3>2
  <2>6. QED BY <1>4, <2>3, <2>4, <2>5 DEF InTime
<1>14. TempIsOwn'
  BY <1>3, <1>4, <1>5, <1>6 DEF TempIsOwn
<1>15. KeptIsThere'
  <2> SUFFICES ASSUME races' \cap {"early", "back"} = {}
               PROVE  /\ kept' \subseteq Pending \cup ToSet(memory')
                      /\ \A s \in Pending, u \in ToSet(memory') : s.at < u.at
    BY <1>8 DEF KeptIsThere
  <2>1. /\ kept \subseteq Pending \cup ToSet(memory)
        /\ \A s \in Pending, u \in ToSet(memory) : s.at < u.at
    BY <1>4 DEF KeptIsThere
  <2>2. "back" \notin races
    BY <1>4
  <2>3. QED BY <1>2, <1>9, <2>1, <2>2
<1>16. ClearedIsGone'
  BY <1>2, <1>3, <1>4, <1>8, <1>9 DEF ClearedIsGone
<1>17. NoClearYet'
  BY <1>4, <1>6 DEF NoClearYet, Saver
<1>18. CopiesAreClean'
  BY <1>2, <1>3, <1>4, <1>7, <1>8, <1>9 DEF CopiesAreClean, ClearedIsGone, Saver
<1>19. ResponsesAreClean'
  BY <1>3, <1>4, <1>6, <1>7 DEF ResponsesAreClean, Saver
<1>20. SavesAfterLoad'
  BY <1>4, <1>6, <1>7 DEF SavesAfterLoad, Saver
<1>21. CopiesAreWhole'
  <2>1. ASSUME races' \cap {"early", "partial", "back"} = {}, Saving("reader")'
        PROVE  kept' \subseteq Held("reader")'
    <3>1. Held("reader")' = ToSet(memory') /\ at["loader"] = "idle"
      BY <1>4, <1>7, <2>1
    <3>2. Pending' = {} /\ kept' \subseteq Pending' \cup ToSet(memory')
      BY <1>8, <1>15, <2>1, <3>1 DEF KeptIsThere, Pending, InPlace, Held, ToSet
    <3>3. QED BY <3>1, <3>2
  <2>2. kept' \cap FileSamples' \subseteq kept \cap FileSamples
    BY <1>2, <1>8, <1>9
  <2>3. QED BY <1>4, <1>7, <1>8, <2>1, <2>2 DEF CopiesAreWhole, Saver
<1>22. QED BY <1>10, <1>11, <1>12, <1>13, <1>14, <1>15, <1>16, <1>17, <1>18, <1>19, <1>20, <1>21

(* After the clock has been set back, only what does not depend on the order of
   the times is known. *)
LEMMA BackKeeps ==
  ASSUME IInv, StepBack
  PROVE  IInv'
<1> USE DEF IInv
<1>1. /\ UNCHANGED <<memory, last, file, tmp, cache, at, held, kept, cleared>>
      /\ races' = races \cup {"back"}
  BY DEF StepBack, store, disk
<1>2. TypeOK'
  BY TypeBack
<1>3. InPlace' /\ InOrder' /\ InTime' /\ TempIsOwn' /\ KeptIsThere'
  BY <1>1 DEF InPlace, InOrder, InTime, TempIsOwn, KeptIsThere, Saving
<1>4. Pending' = Pending /\ FileSamples' = FileSamples /\ \A t \in Thread : Held(t)' = Held(t)
  BY <1>1 DEF Pending, Held, FileSamples, Contents
<1>5. ClearedIsGone' /\ NoClearYet' /\ CopiesAreClean'
  BY <1>1, <1>4, SaversAreThreads DEF ClearedIsGone, NoClearYet, CopiesAreClean, Saving, Saver
<1>6. ResponsesAreClean'
  BY <1>1, <1>4, SaversAreThreads DEF ResponsesAreClean
<1>7. SavesAfterLoad' /\ CopiesAreWhole'
  BY <1>1, <1>4, SaversAreThreads DEF SavesAfterLoad, CopiesAreWhole, Saving, Saver
<1>8. QED BY <1>2, <1>3, <1>5, <1>6, <1>7

LEMMA ClearsKeeps ==
  ASSUME IInv, NEW gone, NEW meant, NEW known,
         Clears(gone, meant, known), Removes(gone, meant, known)
  PROVE  IInv'
<1> USE SaversAreThreads DEF IInv
<1>0. at \in [Thread -> Location] /\ held \in [Thread -> Seq(Sample)]
  BY DEF TypeOK, Location
<1>1. /\ memory' \in Seq(Sample) /\ (InOrderOnce(memory) => InOrderOnce(memory'))
      /\ ToSet(memory') = ToSet(memory) \ gone
      /\ last' = last \ gone /\ kept' = kept \ meant /\ cleared' = cleared \cup known
      /\ at["clear"] = "idle" /\ at' = [at EXCEPT !["clear"] = "write"]
      /\ held' = [held EXCEPT !["clear"] = memory']
  BY <1>0, ClearsFacts
<1>2. known \subseteq ToSet(memory) \cap gone /\ ToSet(memory) \cap gone \cap kept \subseteq meant
  BY DEF Removes
<1>3. UNCHANGED <<file, tmp, cache, clock>>
  BY DEF Clears, disk
<1>4. /\ races \subseteq races' /\ races' \subseteq races \cup {"late", "partial", "stale"}
      /\ at["loader"] # "idle" => {"late", "partial"} \subseteq races'
      /\ \A t \in Thread : at[t] \in {"build10d", "set"} => "stale" \in races'
  BY DEF Clears
<1>5. /\ at'["clear"] = "write" /\ held'["clear"] = memory'
      /\ \A u \in Thread \ {"clear"} : at'[u] = at[u] /\ held'[u] = held[u]
  BY <1>0, <1>1 DEF Saver
<1>6. /\ \A u \in Thread \ {"clear"} : Held(u)' = Held(u) /\ (Saving(u)' <=> Saving(u))
      /\ Held("clear")' = ToSet(memory') /\ Saving("clear")' /\ ~Saving("clear")
  BY <1>1, <1>5 DEF Held, Saving
<1>7. FileSamples' = FileSamples /\ Contents(tmp)' = Contents(tmp) /\ Pending' = Pending
  BY <1>3, <1>5, <1>6 DEF FileSamples, Contents, Pending, Saver
<1>8. at["loader"] = "idle" => Pending = {}
  BY DEF Pending, InPlace, Held, ToSet
<1>9. TypeOK'
  BY TypeClear
<1>10. InPlace'
  BY <1>5, <1>6 DEF InPlace, Saver
<1>11. InOrder'
  <2>1. "back" \notin races' => \A u \in Saver : InOrderOnce(held'[u])
    BY <1>1, <1>4, <1>5 DEF InOrder
  <2>2. QED BY <1>1, <1>3, <1>4, <2>1 DEF InOrder
<1>12. InTime'
  <2>1. (UNION {Held(t) : t \in Saver})' \subseteq ToSet(memory) \cup UNION {Held(t) : t \in Saver}
    BY <1>1, <1>6
  <2>2. QED BY <1>1, <1>2, <1>3, <1>4, <1>7, <2>1 DEF InTime
<1>13. TempIsOwn'
  BY <1>3, <1>4, <1>5 DEF TempIsOwn
<1>14. KeptIsThere'
  BY <1>1, <1>2, <1>4, <1>7 DEF KeptIsThere
<1>15. ClearedIsGone'
  BY <1>1, <1>2, <1>4, <1>7, <1>8 DEF ClearedIsGone
<1>16. NoClearYet' /\ SavesAfterLoad'
  BY <1>4, <1>5 DEF NoClearYet, SavesAfterLoad, Saver
<1>17. CopiesAreClean'
  BY <1>6, <1>15 DEF CopiesAreClean, ClearedIsGone
<1>18. ResponsesAreClean'
  <2> SUFFICES ASSUME races' \cap {"late", "stale"} = {}
               PROVE  \A t \in Builder : cleared' \cap Held(t)' = {}
    BY <1>5 DEF ResponsesAreClean
  <2>1. \A t \in Builder : held[t] = <<>> /\ held'[t] = held[t]
    BY <1>4, <1>5 DEF InPlace, Saver
  <2>2. QED BY <2>1 DEF Held, ToSet
<1>19. CopiesAreWhole'
  <2>1. ASSUME races' \cap {"early", "partial", "back"} = {} PROVE kept' \subseteq Held("clear")'
    BY <1>4, <1>6, <1>7, <1>8, <1>14, <2>1 DEF KeptIsThere
  <2>2. kept' \subseteq kept
    BY <1>1
  <2>3. QED BY <1>4, <1>6, <1>7, <2>1, <2>2 DEF CopiesAreWhole, Saver
<1>20. QED BY <1>9, <1>10, <1>11, <1>12, <1>13, <1>14, <1>15, <1>16, <1>17, <1>18, <1>19

-----------------------------------------------------------------------------
(* The other steps. *)

(* What those who read leave alone. *)
LEMMA ReadingFacts ==
  ASSUME TypeOK, InPlace, Reading
  PROVE  /\ UNCHANGED <<store, disk, clock, history>>
         /\ \A t \in Saver : held'[t] = held[t] /\ (Saving(t)' <=> Saving(t))
         /\ at'["reader"] = at["reader"] /\ at'["loader"] = at["loader"]
         /\ at["clear"] = "idle" => at'["clear"] = "idle"
         /\ at'["clear"] = at["clear"] \/ (at'["clear"] = "idle" /\ cache' = NoCache)
         /\ \A t \in Saver : at'[t] = "rename" => at[t] = "rename"
<1> USE SaversAreThreads
<1> DEFINE Frame == /\ UNCHANGED <<store, disk, clock, history>>
                    /\ \A t \in Saver : held'[t] = held[t]
           Same == \A t \in Saver : at'[t] = at[t]
           Ended == /\ \A t \in Saver \ {"clear"} : at'[t] = at[t]
                    /\ at["clear"] = "invalidate" /\ at'["clear"] = "idle" /\ cache' = NoCache
<1>0. at \in [Thread -> Location] /\ held \in [Thread -> Seq(Sample)]
  BY DEF TypeOK, Location
<1>1. ASSUME NEW t \in Thread, Build(t) \/ SetCache(t) PROVE Frame /\ Same
  <2>1. t \notin Saver
    BY <1>1 DEF InPlace, Saver, Build, SetCache, Goes
  <2>2. QED BY <1>0, <1>1, <2>1 DEF Build, SetCache, Goes
<1>2. ASSUME NEW p \in Popup, Get(p) PROVE Frame /\ Same
  BY <1>0, <1>2 DEF Get, Goes, Builder
<1>3. ASSUME Precompute PROVE Frame /\ Same
  BY <1>0, <1>3 DEF Precompute, Goes, Builder
<1>4. ASSUME Invalidate PROVE Frame /\ Ended
  <2>1. Frame
    BY <1>4 DEF Invalidate
  <2>2. Ended
    BY <1>0, <1>4 DEF Invalidate, Goes, Saver
  <2>3. QED BY <2>1, <2>2
<1>5. ASSUME SettingsChange PROVE Frame /\ Same
  BY <1>5 DEF SettingsChange
<1>6. ASSUME Frame, Same
      PROVE  /\ UNCHANGED <<store, disk, clock, history>>
             /\ \A t \in Saver : held'[t] = held[t] /\ (Saving(t)' <=> Saving(t))
             /\ at'["reader"] = at["reader"] /\ at'["loader"] = at["loader"]
             /\ at'["clear"] = at["clear"]
             /\ \A t \in Saver : at'[t] = "rename" => at[t] = "rename"
  BY <1>6 DEF Saver, Saving
<1>7. ASSUME Frame, Ended
      PROVE  /\ UNCHANGED <<store, disk, clock, history>>
             /\ \A t \in Saver : held'[t] = held[t] /\ (Saving(t)' <=> Saving(t))
             /\ at'["reader"] = at["reader"] /\ at'["loader"] = at["loader"]
             /\ at["clear"] = "invalidate" /\ at'["clear"] = "idle" /\ cache' = NoCache
             /\ \A t \in Saver : at'[t] = "rename" => at[t] = "rename"
  BY <1>7 DEF Saver, Saving
<1> HIDE DEF Frame, Same, Ended
<1>8. (Frame /\ Same) \/ (Frame /\ Ended)
  BY <1>1, <1>2, <1>3, <1>4, <1>5 DEF Reading
<1>9. CASE Frame /\ Same
  BY <1>6, <1>9
<1>10. CASE Frame /\ Ended
  BY <1>7, <1>10
<1>11. QED BY <1>8, <1>9, <1>10

LEMMA ReadingInPlace ==
  ASSUME TypeOK, InPlace, Reading
  PROVE  InPlace'
<1> USE SaversAreThreads
<1>0. at \in [Thread -> Location] /\ held \in [Thread -> Seq(Sample)]
  BY DEF TypeOK, Location
<1>1. /\ \A t \in Saver : held'[t] = held[t] /\ (Saving(t)' <=> Saving(t))
      /\ at'["reader"] = at["reader"] /\ at'["loader"] = at["loader"]
      /\ at'["clear"] = at["clear"] \/ at'["clear"] = "idle"
  BY ReadingFacts
<1> DEFINE Well == \A t \in Builder : /\ at'[t] \in {"idle", "build", "build10d", "set"}
                                      /\ at'[t] \in {"idle", "build"} => held'[t] = <<>>
<1>2. ASSUME NEW t \in Thread, Build(t) \/ SetCache(t) PROVE Well
  BY <1>0, <1>2 DEF Build, SetCache, Goes, InPlace
<1>3. ASSUME NEW p \in Popup, Get(p) PROVE Well
  BY <1>0, <1>3 DEF Get, Goes, InPlace
<1>4. ASSUME Precompute PROVE Well
  BY <1>0, <1>4 DEF Precompute, Goes, InPlace
<1>5. ASSUME Invalidate \/ SettingsChange PROVE Well
  BY <1>0, <1>5 DEF Invalidate, SettingsChange, Goes, InPlace, Saver
<1>6. Well
  BY <1>2, <1>3, <1>4, <1>5 DEF Reading
<1>7. QED BY <1>1, <1>6 DEF InPlace, Saver

(* A response is built of what the memory holds. *)
LEMMA ReadingIsClean ==
  ASSUME TypeOK, InPlace, ClearedIsGone, ResponsesAreClean, Reading
  PROVE  ResponsesAreClean'
<1> USE SaversAreThreads
<1>0. /\ at \in [Thread -> Location] /\ held \in [Thread -> Seq(Sample)]
      /\ memory \in Seq(Sample)
  BY DEF TypeOK, Location
<1>1. /\ cleared' = cleared /\ races' = races
      /\ at'["clear"] = at["clear"] \/ cache' = NoCache
  BY ReadingFacts DEF history
<1> SUFFICES ASSUME races \cap {"late", "stale"} = {}
             PROVE  /\ \A t \in Builder : cleared \cap Held(t)' = {}
                    /\ at'["clear"] = "idle" /\ cache' # NoCache => cleared \cap cache' = {}
  BY <1>1 DEF ResponsesAreClean
<1>2. /\ \A t \in Builder : cleared \cap Held(t) = {}
      /\ at["clear"] = "idle" /\ cache # NoCache => cleared \cap cache = {}
      /\ cleared \cap ToSet(memory) = {}
  BY DEF ResponsesAreClean, ClearedIsGone
<1>3. ASSUME NEW t \in Thread, Build(t)
      PROVE  cache' = cache /\ \A u \in Builder : cleared \cap Held(u)' = {}
  <2> DEFINE I == {i \in DOMAIN memory : memory[i] \notin ToSet(held[t])}
  <2>1. cache' = cache /\ held' = [held EXCEPT ![t] = held[t] \o Keep(memory, I)]
    BY <1>0, <1>3 DEF Build
  <2>2. Keep(memory, I) \in Seq(Sample) /\ ToSet(Keep(memory, I)) \subseteq ToSet(memory)
    <3> HIDE DEF I
    <3>1. ToSet(Keep(memory, I)) = {memory[i] : i \in I \cap DOMAIN memory}
      BY <1>0, KeepFacts
    <3>2. {memory[i] : i \in I \cap DOMAIN memory} \subseteq ToSet(memory)
      BY DEF ToSet
    <3>3. QED BY <1>0, <3>1, <3>2, KeepFacts
  <2> HIDE DEF I
  <2>3. ToSet(held[t] \o Keep(memory, I)) \subseteq Held(t) \cup ToSet(memory)
    BY <1>0, <2>2, ConcatFacts DEF Held
  <2>4. Held(t)' \subseteq Held(t) \cup ToSet(memory)
    BY <1>0, <2>1, <2>3 DEF Held
  <2>5. \A u \in Thread \ {t} : Held(u)' = Held(u)
    BY <1>0, <2>1 DEF Held
  <2>6. QED BY <1>2, <2>1, <2>4, <2>5
<1>4. ASSUME NEW t \in Thread, SetCache(t)
      PROVE  cleared \cap cache' = {} /\ \A u \in Builder : cleared \cap Held(u)' = {}
  <2>1. t \in Builder
    BY <1>4 DEF InPlace, Saver, SetCache, Goes
  <2>2. cache' = Held(t)
    BY <1>4 DEF SetCache, Held
  <2>3. \A u \in Thread : Held(u)' \subseteq Held(u)
    BY <1>0, <1>4 DEF SetCache, Held, ToSet
  <2>4. QED BY <1>2, <2>1, <2>2, <2>3
<1>5. CASE (\E p \in Popup : Get(p)) \/ Precompute \/ Invalidate \/ SettingsChange
  <2>1. held' = held /\ cache' \in {cache, NoCache}
    BY <1>5 DEF Get, Precompute, Invalidate, SettingsChange
  <2>2. QED BY <1>1, <1>2, <2>1 DEF Held
<1>6. QED BY <1>1, <1>2, <1>3, <1>4, <1>5 DEF Reading

LEMMA ReadingKeeps ==
  ASSUME IInv, Reading
  PROVE  IInv'
<1> USE SaversAreThreads DEF IInv
<1>1. /\ UNCHANGED <<store, disk, clock, history>>
      /\ \A t \in Saver : held'[t] = held[t] /\ (Saving(t)' <=> Saving(t))
      /\ at'["reader"] = at["reader"] /\ at'["loader"] = at["loader"]
      /\ at["clear"] = "idle" => at'["clear"] = "idle"
      /\ \A t \in Saver : at'[t] = "rename" => at[t] = "rename"
  BY ReadingFacts
<1>2. UNCHANGED <<memory, last, file, tmp, clock, kept, cleared, races>>
  BY <1>1 DEF store, disk, history
<1>3. \A t \in Saver : Held(t)' = Held(t)
  BY <1>1 DEF Held
<1>4. FileSamples' = FileSamples /\ Contents(tmp)' = Contents(tmp) /\ Pending' = Pending
  BY <1>1, <1>2, <1>3 DEF FileSamples, Contents, Pending, Saver
<1>5. TypeOK' /\ InPlace' /\ ResponsesAreClean'
  BY TypeReading, ReadingInPlace, ReadingIsClean
<1>6. InOrder'
  BY <1>1, <1>2 DEF InOrder
<1>7. InTime'
  BY <1>2, <1>3, <1>4 DEF InTime
<1>8. TempIsOwn'
  <2>1. \A t \in Thread : at'[t] = "rename" => t \in Saver
    BY <1>5 DEF InPlace
  <2>2. QED BY <1>1, <1>2, <2>1 DEF TempIsOwn
<1>9. KeptIsThere' /\ ClearedIsGone'
  BY <1>2, <1>4 DEF KeptIsThere, ClearedIsGone
<1>10. NoClearYet' /\ SavesAfterLoad'
  BY <1>1, <1>2 DEF NoClearYet, SavesAfterLoad, Saver
<1>11. CopiesAreClean' /\ CopiesAreWhole'
  BY <1>1, <1>2, <1>3, <1>4 DEF CopiesAreClean, CopiesAreWhole, Saver
<1>12. QED BY <1>5, <1>6, <1>7, <1>8, <1>9, <1>10, <1>11

LEMMA RestartKeeps ==
  ASSUME IInv, Restart
  PROVE  IInv'
<1> USE SaversAreThreads DEF IInv
<1>1. /\ memory' = <<>> /\ last' = {} /\ cache' = NoCache /\ races' = races \cap {"back"}
      /\ kept' = FileSamples /\ cleared' = cleared \ FileSamples
      /\ UNCHANGED <<file, tmp, clock>>
  BY DEF Restart, disk
<1>2. \A t \in Thread : /\ held'[t] = <<>> /\ ~Saving(t)'
                        /\ at'[t] = IF t = "loader" THEN "load" ELSE "idle"
  BY DEF Restart, Saving
<1>3. at'["loader"] = "load" /\ at'["clear"] = "idle" /\ at'["reader"] = "idle"
  BY <1>2 DEF Saver
<1>4. \A t \in Thread : Held(t)' = {}
  BY <1>2 DEF Held, ToSet
<1>5. /\ FileSamples' = FileSamples /\ Contents(tmp)' = Contents(tmp)
      /\ Pending' = FileSamples /\ ToSet(memory') = {}
  BY <1>1, <1>3 DEF FileSamples, Contents, Pending, ToSet
<1>6. TypeOK'
  BY TypeRestart
<1>7. InPlace'
  BY <1>2 DEF InPlace, Saver
<1>8. InOrder'
  BY <1>1, <1>2 DEF InOrder, InOrderOnce
<1>9. InTime'
  <2>0. "back" \notin races' => "back" \notin races
    BY <1>1
  <2>1. (UNION {Held(t) : t \in Saver})' = {}
    BY <1>4
  <2>2. QED BY <1>1, <1>5, <2>0, <2>1 DEF InTime
<1>10. TempIsOwn' /\ SavesAfterLoad' /\ NoClearYet'
  BY <1>1, <1>2, <1>3 DEF TempIsOwn, SavesAfterLoad, NoClearYet, Saver
<1>11. KeptIsThere' /\ ClearedIsGone'
  BY <1>1, <1>5 DEF KeptIsThere, ClearedIsGone
<1>12. CopiesAreClean' /\ ResponsesAreClean' /\ CopiesAreWhole'
  BY <1>1, <1>2, <1>4, <1>5 DEF CopiesAreClean, ResponsesAreClean, CopiesAreWhole, Saver
<1>13. QED BY <1>6, <1>7, <1>8, <1>9, <1>10, <1>11, <1>12

-----------------------------------------------------------------------------
(* The invariant. *)

LEMMA InitOK == Init => IInv
<1> SUFFICES ASSUME Init PROVE IInv
  OBVIOUS
<1> USE SaversAreThreads
<1>1. /\ memory = <<>> /\ last = {} /\ due = TRUE /\ tmp = NoFile
      /\ cache = NoCache /\ gate = NoCache /\ cleared = {} /\ races = {}
      /\ at = [t \in Thread |-> IF t = "loader" THEN "load" ELSE "idle"]
      /\ held = [t \in Thread |-> <<>>]
      /\ clears \in 0..MaxClears /\ builds \in 0..MaxBuilds /\ mishaps \in 0..MaxMishaps
  BY DEF Init
<1>2. PICK devices \in SeqOf(Device, 2), old \in BOOLEAN :
         LET samples == [i \in DOMAIN devices |-> [at |-> i, dev |-> devices[i]]]
         IN  /\ \/ file = [samples |-> samples, old |-> old]
                \/ file = NoFile /\ devices = <<>>
             /\ kept = ToSet(samples) /\ clock \in Len(samples)..MaxSamples
  BY DEF Init
<1> DEFINE samples == [i \in DOMAIN devices |-> [at |-> i, dev |-> devices[i]]]
           N == Len(devices)
<1>3. N \in Nat /\ DOMAIN devices = 1..N /\ \A i \in 1..N : devices[i] \in Device
  BY <1>2 DEF SeqOf
<1>4. /\ DOMAIN samples = 1..N /\ Len(samples) = N
      /\ \A i \in 1..N : samples[i] = [at |-> i, dev |-> devices[i]]
  BY <1>3
<1>5. /\ file = [samples |-> samples, old |-> old] \/ (file = NoFile /\ N = 0)
      /\ kept = ToSet(samples) /\ clock \in Nat /\ N <= clock /\ clock <= MaxSamples
  BY <1>2, <1>3, <1>4, BoundsFacts
<1> HIDE DEF N
<1>6. samples \in Seq(Sample)
  <2>1. samples = [i \in 1..N |-> samples[i]] /\ \A i \in 1..N : samples[i] \in Sample
    BY <1>3, <1>4, <1>5, BoundsFacts DEF Sample
  <2>2. samples \in [1..N -> Sample]
    BY <2>1
  <2> HIDE DEF samples
  <2>3. QED BY <1>3, <2>2
<1>7. InOrderOnce(samples) /\ \A s \in ToSet(samples) : s \in Sample /\ s.at <= clock
  BY <1>3, <1>4, <1>5, <1>6 DEF InOrderOnce, ToSet
<1>8. N = 0 => ToSet(samples) = {}
  BY <1>4 DEF ToSet
<1> HIDE DEF samples
<1>9. file \notin {NoFile, Unreadable} => file = [samples |-> samples, old |-> old]
  BY <1>5
<1>10. FileSamples \subseteq ToSet(samples) /\ kept = FileSamples
  <2>1. [samples |-> samples, old |-> old] \in File
    BY <1>6 DEF File
  <2>2. CASE file = [samples |-> samples, old |-> old]
    BY <1>5, <2>1, <2>2, DistinctFiles DEF FileSamples, Contents
  <2>3. CASE file = NoFile /\ N = 0
    BY <1>5, <1>8, <2>3 DEF FileSamples, Contents
  <2>4. QED BY <1>5, <2>2, <2>3
<1>11. TypeOK
  <2>1. {file, tmp} \ {NoFile, Unreadable} \subseteq File
    BY <1>1, <1>5, <1>6 DEF File
  <2>2. at \in [Thread -> Location] /\ held \in [Thread -> Seq(Sample)]
    BY <1>1 DEF Location
  <2>3. kept \subseteq Sample /\ clock \in 0..MaxSamples
    BY <1>5, <1>7, BoundsFacts
  <2>4. InOrderOnce(memory)
    BY <1>1 DEF InOrderOnce
  <2>5. QED BY <1>1, <2>1, <2>2, <2>3, <2>4 DEF TypeOK, Location
<1>12. \A t \in Thread : Held(t) = {} /\ ~Saving(t)
  BY <1>1 DEF Held, Saving, ToSet
<1>13. /\ at["loader"] = "load" /\ at["clear"] = "idle" /\ Pending = FileSamples
       /\ ToSet(memory) = {} /\ Contents(tmp) = {}
  BY <1>1 DEF Pending, ToSet, Contents, Saver
<1>14. InPlace
  BY <1>1 DEF InPlace, Saver
<1>15. InOrder
  BY <1>1, <1>7, <1>9 DEF InOrder, InOrderOnce
<1>16. InTime
  <2>1. UNION {Held(t) : t \in Saver} = {}
    BY <1>12
  <2>2. QED BY <1>1, <1>7, <1>10, <1>13, <2>1 DEF InTime
<1>17. TempIsOwn /\ KeptIsThere /\ ClearedIsGone /\ NoClearYet
  BY <1>1, <1>10, <1>12, <1>13 DEF TempIsOwn, KeptIsThere, ClearedIsGone, NoClearYet, Saving
<1>18. CopiesAreClean /\ ResponsesAreClean /\ SavesAfterLoad /\ CopiesAreWhole
  BY <1>1, <1>12
     DEF CopiesAreClean, ResponsesAreClean, SavesAfterLoad, CopiesAreWhole, Saver
<1>19. QED BY <1>11, <1>14, <1>15, <1>16, <1>17, <1>18 DEF IInv

LEMMA StepOK == IInv /\ [Next]_vars => IInv'
<1> SUFFICES ASSUME IInv, [Next]_vars PROVE IInv'
  OBVIOUS
<1>1. ASSUME NEW t \in Thread, Write(t) PROVE IInv'
  <2>1. TypeOK'
    BY <1>1, TypeSaves DEF IInv
  <2>2. QED BY <1>1, <2>1, WriteKeeps DEF IInv
<1>2. ASSUME NEW t \in Thread, Rename(t) PROVE IInv'
  BY <1>2, RenameKeeps
<1>3. ASSUME NEW t \in Thread, SaveFails(t) PROVE IInv'
  BY <1>3, SaveFailsKeeps
<1>4. CASE Load
  BY <1>4, LoadKeeps
<1>5. CASE Merge
  BY <1>5, MergeKeeps
<1>6. ASSUME NEW pass \in Pass, Record(pass) PROVE IInv'
  BY <1>6, RecordKeeps
<1>7. CASE ClearAll \/ \E d \in Device : ClearDevice(Key[d])
  <2>1. TypeOK
    BY DEF IInv
  <2>2. PICK gone, meant, known : Clears(gone, meant, known) /\ Removes(gone, meant, known)
    BY <1>7, <2>1, ClearRemoves
  <2>3. QED BY <2>2, ClearsKeeps
<1>8. CASE Reading
  BY <1>8, ReadingKeeps
<1>9. CASE Restart
  BY <1>9, RestartKeeps
<1>10. CASE UNCHANGED vars
  <2>1. UNCHANGED <<memory, last, due, file, tmp, cache, gate, at, held, clock, kept, cleared,
                    races, clears, builds, mishaps>>
    BY <1>10 DEF vars, store, disk, history, bounds
  <2>2. TypeOK' /\ InPlace' /\ InOrder' /\ TempIsOwn' /\ NoClearYet' /\ SavesAfterLoad'
    BY <2>1 DEF IInv, TypeOK, InPlace, InOrder, TempIsOwn, NoClearYet, SavesAfterLoad, Saving,
                InOrderOnce
  <2>3. InTime' /\ KeptIsThere' /\ ClearedIsGone' /\ CopiesAreClean' /\ ResponsesAreClean'
          /\ CopiesAreWhole'
    BY <2>1 DEF IInv, InTime, KeptIsThere, ClearedIsGone, CopiesAreClean, ResponsesAreClean,
                CopiesAreWhole, Saving, Held, Pending, FileSamples, Contents
  <2>4. QED BY <2>2, <2>3 DEF IInv
<1>11. CASE StepBack
  BY <1>11, BackKeeps
<1>12. QED BY <1>1, <1>2, <1>3, <1>4, <1>5, <1>6, <1>7, <1>8, <1>9, <1>10, <1>11 DEF Next, Reading

LEMMA Invariant == Spec => []IInv
<1>1. QED BY InitOK, StepOK, PTL DEF Spec

-----------------------------------------------------------------------------
(* The theorems. *)

(* Every variable has its type, and as long as the clock has not been set back the
   samples of the memory are in the order of their times and none is there twice,
   whatever record_samples, load_from_disk and clear_history have made of them:
   the passes with several samples of one time included. *)
THEOREM TypeCorrect == Spec => []TypeOK
<1>1. IInv => TypeOK
  BY DEF IInv
<1>2. QED BY <1>1, Invariant, PTL

(* For every set of devices and of tags, build_sample_groups puts each sample of
   the memory into one group, and into the same one exactly those that chains of
   common tags connect: the order in which they were recorded, and so the order
   in which the groups were joined, makes no difference. *)
THEOREM GroupsAreTheDevices == Spec => []GroupsAreDevices
<1>1. TypeOK => GroupsAreDevices
  BY GroupsOfList DEF TypeOK
<1>2. QED BY <1>1, TypeCorrect, PTL

(* Once load_from_disk has ended, the memory holds every sample that nobody has
   cleared and that has not outlived its retention, recorded or loaded: unless a
   save came before the loader, or the clock was set back. *)
THEOREM SamplesAreKept == Spec => []NothingForgotten
<1>1. IInv => NothingForgotten
  BY DEF IInv, NothingForgotten, KeptIsThere, Pending, InPlace, Held, ToSet
<1>2. QED BY <1>1, Invariant, PTL

(* What battery_history_clear has removed stays away: from the memory and the
   last readings, from the file and from the cached responses. *)
THEOREM ClearsLast == Spec => []ClearedStaysCleared
<1>1. IInv => ClearedStaysCleared
  <2> SUFFICES ASSUME IInv PROVE ClearedStaysCleared
    OBVIOUS
  <2>1. "late" \notin races => cleared \cap (ToSet(memory) \cup last) = {}
    BY DEF IInv, ClearedIsGone
  <2>2. at["clear"] = "idle" /\ races \cap {"late", "files"} = {} => cleared \cap FileSamples = {}
    BY DEF IInv, CopiesAreClean, Saving
  <2>3. at["clear"] = "idle" /\ races \cap {"late", "stale"} = {} /\ cache # NoCache
           => cleared \cap cache = {}
    BY DEF IInv, ResponsesAreClean
  <2>4. QED BY <2>1, <2>2, <2>3 DEF ClearedStaysCleared
<1>2. QED BY <1>1, Invariant, PTL

(* No step takes a sample out of the file that nobody has cleared and that has
   not outlived its retention: unless the loader was at work, two saves met, or
   the clock was set back. *)
THEOREM SavesLast == Spec => SavedStaysSaved
<1> DEFINE Kept == (races \cup races') \cap {"early", "partial", "files", "back"} = {}
                      => kept' \cap FileSamples \subseteq FileSamples'
<1>1. IInv /\ [Next]_vars => [Kept]_vars
  <2> SUFFICES ASSUME IInv, Next,
                      (races \cup races') \cap {"early", "partial", "files", "back"} = {}
               PROVE  kept' \cap FileSamples \subseteq FileSamples'
    BY DEF vars
  <2>1. ASSUME file' = file PROVE FileSamples' = FileSamples
    BY <2>1 DEF FileSamples, Contents
  <2>2. ASSUME NEW t \in Thread, Rename(t)
        PROVE  kept' \cap FileSamples \subseteq FileSamples'
    <3>1. /\ t \in Saver /\ Saving(t) /\ kept' = kept /\ FileSamples' = Contents(tmp)
      BY <2>2, LeaveFacts DEF IInv, Rename, FileSamples, Contents
    <3>2. tmp = [samples |-> held[t], old |-> FALSE] /\ at[t] = "rename"
      BY <2>2 DEF IInv, TempIsOwn, Rename, Goes
    <3>3. tmp \in File
      BY <3>2 DEF IInv, TypeOK, File
    <3>4. Contents(tmp) = Held(t)
      BY <3>2, <3>3, DistinctFiles DEF Contents, Held
    <3>5. kept \cap FileSamples \subseteq Held(t)
      BY <3>1 DEF IInv, CopiesAreWhole, Saver
    <3>6. QED BY <3>1, <3>4, <3>5
  <2>3. ASSUME Load PROVE FileSamples' = FileSamples
    BY <2>3, LoadFacts DEF IInv
  <2>4. ASSUME NEW t \in Thread, Write(t) \/ SaveFails(t) \/ Build(t) \/ SetCache(t)
        PROVE  file' = file
    BY <2>4 DEF Write, SaveFails, Build, SetCache, disk
  <2>5. ASSUME (\E pass \in Pass : Record(pass)) \/ (\E d \in Device : ClearDevice(Key[d]))
        PROVE  file' = file
    BY <2>5 DEF Record, ClearDevice, Clears, disk
  <2>6. ASSUME \/ Merge \/ Precompute \/ (\E p \in Popup : Get(p))
               \/ ClearAll \/ Invalidate \/ SettingsChange \/ Restart \/ StepBack
        PROVE  file' = file
    BY <2>6 DEF Merge, Precompute, Get, ClearAll, Clears, Invalidate, SettingsChange, Restart,
                StepBack, disk
  <2>7. QED BY <2>1, <2>2, <2>3, <2>4, <2>5, <2>6 DEF Next
<1>2. QED BY <1>1, Invariant, PTL DEF Spec, SavedStaysSaved

=============================================================================
