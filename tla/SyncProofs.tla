----------------------------- MODULE SyncProofs -----------------------------
(* Theorems on synchronised devices, for every value of the constants: the   *)
(* registry of SyncGroups, with any number of devices, of threads and of     *)
(* groups, and then the dispatcher of SyncDispatch, with any number of       *)
(* slaves, of workers and of events.                                         *)
EXTENDS SyncGroups, SyncDispatch, SequenceTheorems, FiniteSetTheorems, TLAPS

(* The registry works because a group is made of devices that are in none,   *)
(* and because of what each thread has still to do: a device leaves its      *)
(* owner with the hook right behind the DELETE, and a request that makes a   *)
(* group gives up no device whose claim is to come without giving up the     *)
(* group.  GroupsInvariant says so and is inductive.                         *)

\* What a request does one after another: each stretch of steps is of one
\* phase, and whoever leaves a stretch early leaves no other phase behind.
Asking == {"ask", "create"}
Claiming == {"claim", "insert"}
Tearing == {"delete", "hook", "drop"}
Setting == {"enable", "disable"}
Phases == {Asking, Claiming, Tearing, {"dissolve"}, Setting}

\* The steps a request of each kind may have left.
StepOK(r, s) ==
    /\ s.do \in {"ask", "claim", "insert", "delete", "hook"} => s.dev \in Device
    /\ s.do \in Asking => r.op = "create" /\ r.group = 0
    /\ s.do \in {"claim", "insert", "drop"} => r.op = "create" /\ r.group # 0
    /\ s.do = "dissolve" => r.op = "delete"
    /\ s.do \in Setting => r.op = "set"

\* Behind each DELETE is its hook.
HooksFollow(steps) ==
    \A i \in DOMAIN steps :
        steps[i].do = "delete" =>
            i + 1 \in DOMAIN steps /\ steps[i + 1] = Do("hook", steps[i].dev)

Stretch(r, steps, phase) ==
    /\ steps \in Seq(Step)
    /\ \A i \in DOMAIN steps : steps[i].do \in phase /\ StepOK(r, steps[i])
    /\ HooksFollow(steps)

StepsOK(r, steps) == \E phase \in Phases : Stretch(r, steps, phase)

RequestOK(r) ==
    /\ r \in Request
    /\ r.op = "create" => r.user \in User /\ r.wanted # <<>> /\ IsInjective(r.wanted)
    /\ r.op \in {"delete", "set"} => r.group # 0

CallOK(r) == RequestOK(r) /\ StepsOK(r, r.todo)

\* The group a request is about was made, by this request if it creates one.
GroupKnown(r) ==
    r.group # 0 =>
        r.group \in DOMAIN groups /\ (r.op = "create" => groups[r.group].owner = r.user)

RegistryTyped ==
    /\ users \subseteq User
    /\ holder \in [Device -> User \cup {Nobody}]
    /\ groups \in Seq(Group) /\ Len(groups) <= MaxGroups
    /\ listed \subseteq DOMAIN groups
    /\ DOMAIN thread = Thread
    /\ \A t \in Thread : CallOK(thread[t]) /\ GroupKnown(thread[t])
    /\ calls \in 0 .. MaxCalls

\* What the properties say of one group, and of one thread.
MemberOf(group, d) == d = group.master \/ d \in ToSet(group.slaves)
Owes(r, d) == Contains(r.todo, Do("hook", d))
Makes(r, g, d) ==
    /\ r.op = "create" /\ r.group = g
    /\ \/ Contains(r.todo, Do("claim", d))
       \/ Contains(r.todo, Do("insert", d))
       \/ Contains(r.todo, Do("drop", None))

Separate ==
    \A g \in listed :
        /\ groups[g].master \notin ToSet(groups[g].slaves) /\ IsInjective(groups[g].slaves)
        /\ \A h \in listed \ {g} : \A d \in Device :
              ~(MemberOf(groups[g], d) /\ MemberOf(groups[h], d))

\* A thread is about to take the device out of the group, or to get it.
Accounts(r, g, d) == Owes(r, d) \/ Makes(r, g, d)

Backed ==
    \A g \in listed, d \in Device :
        groups[g].owner \in users /\ MemberOf(groups[g], d) =>
            holder[d] = groups[g].owner \/ \E t \in Thread : Accounts(thread[t], g, d)

GroupsInvariant == RegistryTyped /\ Separate /\ Backed

-----------------------------------------------------------------------------
(* Sequences of devices and of steps.                                        *)

LEMMA HeadAndTail ==
    ASSUME NEW S, NEW s \in Seq(S), s # <<>>
    PROVE  /\ Len(s) \in Nat \ {0} /\ DOMAIN s = 1 .. Len(s)
           /\ Head(s) = s[1] /\ Head(s) \in S
           /\ Tail(s) \in Seq(S) /\ Len(Tail(s)) = Len(s) - 1
           /\ DOMAIN Tail(s) = 1 .. Len(s) - 1
           /\ \A i \in 1 .. Len(s) - 1 : Tail(s)[i] = s[i + 1]
  BY HeadTailProperties, EmptySeq, LenProperties

LEMMA Concatenated ==
    ASSUME NEW S, NEW q \in Seq(S), NEW s \in Seq(S)
    PROVE  /\ Len(q) \in Nat /\ Len(s) \in Nat
           /\ q \o s \in Seq(S) /\ Len(q \o s) = Len(q) + Len(s)
           /\ DOMAIN (q \o s) = 1 .. Len(q) + Len(s)
           /\ \A i \in 1 .. Len(q) : (q \o s)[i] = q[i]
           /\ \A i \in 1 .. Len(s) : (q \o s)[Len(q) + i] = s[i]
<1>1. Len(q) \in Nat /\ Len(s) \in Nat
  BY LenProperties
<1>2. q \o s \in Seq(S) /\ Len(q \o s) = Len(q) + Len(s)
  BY ConcatProperties
<1>3. \A i \in 1 .. Len(q) + Len(s) :
         (q \o s)[i] = IF i <= Len(q) THEN q[i] ELSE s[i - Len(q)]
  BY <1>2, ConcatProperties
<1>4. \A i \in 1 .. Len(q) : (q \o s)[i] = q[i]
  BY <1>1, <1>3
<1>5. ASSUME NEW i \in 1 .. Len(s)
      PROVE  (q \o s)[Len(q) + i] = s[i]
  <2>1. Len(q) + i \in 1 .. Len(q) + Len(s) /\ ~(Len(q) + i <= Len(q))
        /\ (Len(q) + i) - Len(q) = i
    BY <1>1
  <2> QED
    BY <1>3, <2>1
<1> QED
  BY <1>1, <1>2, <1>4, <1>5, LenProperties

\* A position of a concatenation is one of the first or of the second part.
LEMMA Places ==
    ASSUME NEW S, NEW q \in Seq(S), NEW s \in Seq(S), NEW i \in DOMAIN (q \o s)
    PROVE  \/ i \in DOMAIN q /\ (q \o s)[i] = q[i]
           \/ \E j \in DOMAIN s : i = Len(q) + j /\ (q \o s)[i] = s[j]
<1>1. /\ Len(q) \in Nat /\ Len(s) \in Nat /\ i \in 1 .. Len(q) + Len(s)
      /\ DOMAIN q = 1 .. Len(q) /\ DOMAIN s = 1 .. Len(s)
  BY Concatenated, LenProperties
<1>2. CASE i <= Len(q)
  <2>1. i \in 1 .. Len(q)
    BY <1>1, <1>2
  <2> QED
    BY <1>1, <2>1, Concatenated
<1>3. CASE i > Len(q)
  <2>1. PICK j : j = i - Len(q)
    OBVIOUS
  <2>2. j \in 1 .. Len(s) /\ i = Len(q) + j
    BY <1>1, <1>3, <2>1
  <2> QED
    BY <1>1, <2>2, Concatenated
<1> QED
  BY <1>1, <1>2, <1>3

LEMMA ContainsEither ==
    ASSUME NEW S, NEW q \in Seq(S), NEW s \in Seq(S), NEW e
    PROVE  Contains(q \o s, e) <=> Contains(q, e) \/ Contains(s, e)
<1>1. /\ Len(q) \in Nat /\ Len(s) \in Nat /\ Len(q \o s) = Len(q) + Len(s)
      /\ DOMAIN (q \o s) = 1 .. Len(q) + Len(s)
      /\ \A i \in 1 .. Len(q) : (q \o s)[i] = q[i]
      /\ \A i \in 1 .. Len(s) : (q \o s)[Len(q) + i] = s[i]
      /\ DOMAIN q = 1 .. Len(q) /\ DOMAIN s = 1 .. Len(s)
  BY Concatenated, LenProperties
<1>2. ASSUME Contains(q \o s, e)
      PROVE  Contains(q, e) \/ Contains(s, e)
  <2>1. PICK i \in DOMAIN (q \o s) : (q \o s)[i] = e
    BY <1>1, <1>2 DEF Contains
  <2> QED
    BY <1>1, <2>1, Places DEF Contains
<1>3. ASSUME Contains(q, e)
      PROVE  Contains(q \o s, e)
  <2>1. PICK i \in 1 .. Len(q) : q[i] = e
    BY <1>3 DEF Contains
  <2>2. i \in 1 .. Len(q) + Len(s)
    BY <1>1
  <2> QED
    BY <1>1, <2>1, <2>2 DEF Contains
<1>4. ASSUME Contains(s, e)
      PROVE  Contains(q \o s, e)
  <2>1. PICK i \in 1 .. Len(s) : s[i] = e
    BY <1>4 DEF Contains
  <2>2. Len(q) + i \in 1 .. Len(q) + Len(s)
    BY <1>1
  <2> QED
    BY <1>1, <2>1, <2>2 DEF Contains
<1> QED
  BY <1>2, <1>3, <1>4

LEMMA ContainsHead ==
    ASSUME NEW S, NEW s \in Seq(S), s # <<>>, NEW e
    PROVE  Contains(s, e) <=> e = Head(s) \/ Contains(Tail(s), e)
<1>1. /\ Len(s) \in Nat \ {0} /\ Head(s) = s[1] /\ Len(Tail(s)) = Len(s) - 1
      /\ \A i \in 1 .. Len(s) - 1 : Tail(s)[i] = s[i + 1]
  BY HeadAndTail
<1>2. ASSUME Contains(s, e), e # Head(s)
      PROVE  Contains(Tail(s), e)
  <2>1. PICK i \in 1 .. Len(s) : s[i] = e
    BY <1>2 DEF Contains
  <2>2. i - 1 \in 1 .. Len(s) - 1 /\ Tail(s)[i - 1] = s[i]
    BY <1>1, <1>2, <2>1
  <2> QED
    BY <1>1, <2>1, <2>2 DEF Contains
<1>3. ASSUME Contains(Tail(s), e)
      PROVE  Contains(s, e)
  <2>1. PICK i \in 1 .. Len(s) - 1 : Tail(s)[i] = e
    BY <1>1, <1>3 DEF Contains
  <2>2. i + 1 \in 1 .. Len(s) /\ s[i + 1] = e
    BY <1>1, <2>1
  <2> QED
    BY <2>2 DEF Contains
<1>4. 1 \in 1 .. Len(s)
  BY <1>1
<1> QED
  BY <1>1, <1>2, <1>3, <1>4 DEF Contains

\* What stands before a position of a list and behind it.
LEMMA Around ==
    ASSUME NEW S, NEW s \in Seq(S), NEW k \in 1 .. Len(s)
    PROVE  /\ SubSeq(s, 1, k - 1) \in Seq(S) /\ Len(SubSeq(s, 1, k - 1)) = k - 1
           /\ \A i \in 1 .. k - 1 : SubSeq(s, 1, k - 1)[i] = s[i]
           /\ SubSeq(s, k + 1, Len(s)) \in Seq(S)
           /\ Len(SubSeq(s, k + 1, Len(s))) = Len(s) - k
           /\ \A i \in 1 .. Len(s) - k : SubSeq(s, k + 1, Len(s))[i] = s[i + k]
<1>1. PICK n \in Nat : n = Len(s)
  BY LenProperties
<1>2. /\ n \in Int /\ 1 \in Int /\ k - 1 \in Int /\ k + 1 \in Int /\ k \in 1 .. n
      /\ \A i \in 1 .. k - 1 : s[i] \in S
      /\ \A i \in k + 1 .. n : s[i] \in S
  BY <1>1, ElementOfSeq
<1>3. PICK a : a = SubSeq(s, 1, k - 1)
  OBVIOUS
<1>4. PICK b : b = SubSeq(s, k + 1, n)
  OBVIOUS
<1>5. /\ a \in Seq(S) /\ Len(a) = IF 1 <= k - 1 THEN k - 1 - 1 + 1 ELSE 0
      /\ \A i \in 1 .. k - 1 - 1 + 1 : a[i] = s[1 + i - 1]
  BY <1>2, <1>3, SubSeqProperties
<1>6. /\ b \in Seq(S) /\ Len(b) = IF k + 1 <= n THEN n - (k + 1) + 1 ELSE 0
      /\ \A i \in 1 .. n - (k + 1) + 1 : b[i] = s[k + 1 + i - 1]
  BY <1>2, <1>4, SubSeqProperties
<1>7. Len(a) = k - 1 /\ Len(b) = n - k
  BY <1>2, <1>5, <1>6
<1>8. \A i \in 1 .. k - 1 : a[i] = s[i]
  BY <1>2, <1>5
<1>9. ASSUME NEW i \in 1 .. n - k
      PROVE  b[i] = s[i + k]
  <2>1. i \in 1 .. n - (k + 1) + 1 /\ k + 1 + i - 1 = i + k
    BY <1>2
  <2> QED
    BY <1>6, <2>1
<1> QED
  BY <1>1, <1>3, <1>4, <1>5, <1>6, <1>7, <1>8, <1>9

\* list.remove takes the one occurrence out.
LEMMA RemovesFirst ==
    ASSUME NEW S, NEW s \in Seq(S), NEW e \in ToSet(s), IsInjective(s)
    PROVE  /\ RemoveFirst(s, e) \in Seq(S) /\ IsInjective(RemoveFirst(s, e))
           /\ ToSet(RemoveFirst(s, e)) \subseteq ToSet(s) \ {e}
<1>1. Len(s) \in Nat /\ DOMAIN s = 1 .. Len(s) /\ \A i \in 1 .. Len(s) : s[i] \in S
  BY LenProperties, ElementOfSeq
<1>2. PICK k \in 1 .. Len(s) : s[k] = e
  BY <1>1 DEF ToSet
<1> DEFINE I == {i \in 1 .. Len(s) : s[i] = e}
<1>3. RemoveFirst(s, e) = RemoveAt(s, k)
  <2>1. I = {k}
    BY <1>1, <1>2 DEF IsInjective
  <2>2. Min({k}) = k
    BY DEF Min
  <2>3. RemoveFirst(s, e) = RemoveAt(s, Min(I))
    BY <1>2, <2>1 DEF RemoveFirst, SelectInSeq
  <2> QED
    BY <2>1, <2>2, <2>3
<1> DEFINE a == SubSeq(s, 1, k - 1)
           b == SubSeq(s, k + 1, Len(s))
           r == a \o b
<1>4. /\ a \in Seq(S) /\ Len(a) = k - 1 /\ \A i \in 1 .. k - 1 : a[i] = s[i]
      /\ b \in Seq(S) /\ Len(b) = Len(s) - k
      /\ \A i \in 1 .. Len(s) - k : b[i] = s[i + k]
  BY Around
<1>6. RemoveFirst(s, e) = r
  BY <1>3 DEF RemoveAt
<1> HIDE DEF a, b
<1>7. /\ r \in Seq(S) /\ DOMAIN r = 1 .. Len(s) - 1
      /\ \A i \in 1 .. k - 1 : r[i] = a[i]
      /\ \A i \in 1 .. Len(s) - k : r[k - 1 + i] = b[i]
  <2>1. k - 1 + (Len(s) - k) = Len(s) - 1
    BY <1>1
  <2> QED
    BY <1>4, <2>1, Concatenated
<1> HIDE DEF r
<1>8. ASSUME NEW i \in 1 .. Len(s) - 1
      PROVE  r[i] = IF i < k THEN s[i] ELSE s[i + 1]
  <2>1. CASE i < k
    <3>1. i \in 1 .. k - 1
      BY <1>1, <2>1
    <3> QED
      BY <1>4, <1>7, <2>1, <3>1
  <2>2. CASE ~(i < k)
    <3>1. PICK j : j = i - (k - 1)
      OBVIOUS
    <3>2. j \in 1 .. Len(s) - k /\ i = k - 1 + j /\ j + k = i + 1
      BY <1>1, <2>2, <3>1
    <3>3. r[i] = b[j]
      BY <1>7, <3>2
    <3> QED
      BY <1>4, <2>2, <3>2, <3>3
  <2> QED
    BY <2>1, <2>2
<1>9. \A i, j \in 1 .. Len(s) : s[i] = s[j] => i = j
  BY <1>1 DEF IsInjective
<1>10. ToSet(r) \subseteq ToSet(s) \ {e}
  <2>1. ASSUME NEW i \in 1 .. Len(s) - 1
        PROVE  \E j \in 1 .. Len(s) : r[i] = s[j] /\ j # k
    <3>1. CASE i < k
      BY <1>1, <1>8, <3>1
    <3>2. CASE i >= k
      <4>1. i + 1 \in 1 .. Len(s) /\ i + 1 # k /\ r[i] = s[i + 1]
        BY <1>1, <1>8, <3>2
      <4> QED
        BY <4>1
    <3> QED
      BY <1>1, <3>1, <3>2
  <2> QED
    <3>1. ASSUME NEW x \in ToSet(r)
          PROVE  x \in ToSet(s) /\ x # e
      <4>1. PICK i \in 1 .. Len(s) - 1 : x = r[i]
        BY <1>7 DEF ToSet
      <4>2. PICK j \in 1 .. Len(s) : x = s[j] /\ j # k
        BY <2>1, <4>1
      <4> QED
        BY <1>1, <1>2, <1>9, <4>2 DEF ToSet
    <3> QED
      BY <3>1
<1>11. IsInjective(r)
  <2>1. ASSUME NEW i \in 1 .. Len(s) - 1, NEW j \in 1 .. Len(s) - 1, r[i] = r[j]
        PROVE  i = j
    <3>1. /\ i \in 1 .. Len(s) /\ i + 1 \in 1 .. Len(s)
          /\ j \in 1 .. Len(s) /\ j + 1 \in 1 .. Len(s)
      BY <1>1
    <3>2. (IF i < k THEN s[i] ELSE s[i + 1]) = IF j < k THEN s[j] ELSE s[j + 1]
      BY <1>8, <2>1
    <3> QED
      BY <1>1, <1>9, <3>1, <3>2
  <2> QED
    BY <1>7, <2>1 DEF IsInjective
<1> QED
  BY <1>6, <1>7, <1>10, <1>11

-----------------------------------------------------------------------------
(* Sets of devices as lists.                                                 *)

LEMMA Listed ==
    ASSUME NEW S, NEW X \in SUBSET S, IsFiniteSet(X)
    PROVE  SetToSeq(X) \in Seq(S) /\ IsInjective(SetToSeq(X)) /\ ToSet(SetToSeq(X)) \subseteq X
<1>1. Cardinality(X) \in Nat /\ ExistsBijection(1 .. Cardinality(X), X)
  BY FS_CardinalityType
<1>2. PICK f : f \in Bijection(1 .. Cardinality(X), X)
  BY <1>1 DEF ExistsBijection
<1>3. f \in [1 .. Cardinality(X) -> X] /\ IsInjective(f)
  BY <1>2 DEF Bijection, Injection
<1>4. SetToSeq(X) \in [1 .. Cardinality(X) -> X] /\ IsInjective(SetToSeq(X))
  BY <1>3 DEF SetToSeq
<1>5. SetToSeq(X) \in Seq(X) /\ DOMAIN SetToSeq(X) = 1 .. Cardinality(X)
  BY <1>1, <1>4, SeqDef
<1>6. Len(SetToSeq(X)) = Cardinality(X)
  BY <1>1, <1>5, LenProperties
<1>7. SetToSeq(X) \in Seq(S)
  BY <1>1, <1>4, SeqDef
<1> QED
  BY <1>1, <1>4, <1>5, <1>7, LenProperties, ElementOfSeq DEF ToSet

\* The master in front of a list that does not have it.
LEMMA Fronted ==
    ASSUME NEW S, NEW m \in S, NEW s \in Seq(S), IsInjective(s), m \notin ToSet(s)
    PROVE  /\ <<m>> \o s \in Seq(S) /\ IsInjective(<<m>> \o s) /\ <<m>> \o s # <<>>
<1>1. <<m>> \in Seq(S) /\ Len(<<m>>) = 1 /\ <<m>>[1] = m
  OBVIOUS
<1> DEFINE q == <<m>> \o s
<1>2. /\ Len(s) \in Nat /\ q \in Seq(S) /\ Len(q) = 1 + Len(s) /\ DOMAIN q = 1 .. 1 + Len(s)
      /\ q[1] = m /\ \A i \in 1 .. Len(s) : q[1 + i] = s[i]
  BY <1>1, Concatenated
<1> HIDE DEF q
<1>3. \A i \in 2 .. 1 + Len(s) : i - 1 \in 1 .. Len(s) /\ q[i] = s[i - 1]
  <2> TAKE i \in 2 .. 1 + Len(s)
  <2>1. i - 1 \in 1 .. Len(s) /\ 1 + (i - 1) = i
    BY <1>2
  <2> QED
    BY <1>2, <2>1
<1>4. \A i, j \in 1 .. Len(s) : s[i] = s[j] => i = j
  BY LenProperties DEF IsInjective
<1>5. \A i \in 1 .. Len(s) : s[i] # m
  BY DEF ToSet
<1>6. ASSUME NEW i \in 1 .. 1 + Len(s), NEW j \in 1 .. 1 + Len(s), q[i] = q[j]
      PROVE  i = j
  <2>1. CASE i = 1 /\ j = 1
    BY <2>1
  <2>2. CASE i = 1 /\ j # 1
    <3>1. j \in 2 .. 1 + Len(s)
      BY <1>2, <2>2
    <3> QED
      BY <1>2, <1>3, <1>5, <1>6, <2>2, <3>1
  <2>3. CASE i # 1 /\ j = 1
    <3>1. i \in 2 .. 1 + Len(s)
      BY <1>2, <2>3
    <3> QED
      BY <1>2, <1>3, <1>5, <1>6, <2>3, <3>1
  <2>4. CASE i # 1 /\ j # 1
    <3>1. i \in 2 .. 1 + Len(s) /\ j \in 2 .. 1 + Len(s)
      BY <1>2, <2>4
    <3>2. i - 1 = j - 1
      BY <1>3, <1>4, <1>6, <3>1
    <3> QED
      BY <1>2, <3>1, <3>2
  <2> QED
    BY <2>1, <2>2, <2>3, <2>4
<1>7. IsInjective(q)
  BY <1>2, <1>6 DEF IsInjective
<1>8. q # <<>>
  BY <1>2, EmptySeq
<1> QED
  BY <1>2, <1>7, <1>8 DEF q

LEMMA ListsAreFinite ==
    ASSUME NEW S, NEW s \in Seq(S)
    PROVE  IsFiniteSet(ToSet(s)) /\ ToSet(s) \subseteq S
<1>1. Len(s) \in Nat /\ DOMAIN s = 1 .. Len(s) /\ s \in [1 .. Len(s) -> S]
  BY LenProperties
<1>2. s \in Surjection(1 .. Len(s), ToSet(s))
  BY <1>1 DEF Surjection, ToSet
<1>3. IsFiniteSet(1 .. Len(s))
  BY <1>1, FS_Interval
<1> QED
  BY <1>1, <1>2, <1>3, FS_Surjection DEF ToSet

-----------------------------------------------------------------------------
(* Stretches of steps.                                                       *)

LEMMA Stretched ==
    ASSUME NEW r, NEW phase, NEW q, NEW s, Stretch(r, q, phase), Stretch(r, s, phase)
    PROVE  Stretch(r, q \o s, phase)
<1>1. q \in Seq(Step) /\ s \in Seq(Step)
  BY DEF Stretch
<1>2. /\ Len(q) \in Nat /\ Len(s) \in Nat /\ q \o s \in Seq(Step)
      /\ DOMAIN (q \o s) = 1 .. Len(q) + Len(s)
      /\ \A i \in 1 .. Len(q) : (q \o s)[i] = q[i]
      /\ \A i \in 1 .. Len(s) : (q \o s)[Len(q) + i] = s[i]
      /\ DOMAIN q = 1 .. Len(q) /\ DOMAIN s = 1 .. Len(s)
  BY <1>1, Concatenated, LenProperties
<1> DEFINE Fits(i) == /\ (q \o s)[i].do \in phase /\ StepOK(r, (q \o s)[i])
                      /\ (q \o s)[i].do = "delete" =>
                            /\ i + 1 \in DOMAIN (q \o s)
                            /\ (q \o s)[i + 1] = Do("hook", (q \o s)[i].dev)
<1>3. ASSUME NEW i \in DOMAIN (q \o s)
      PROVE  Fits(i)
  <2>1. CASE i \in DOMAIN q /\ (q \o s)[i] = q[i]
    <3>1. ASSUME q[i].do = "delete"
          PROVE  i + 1 \in DOMAIN q /\ q[i + 1] = Do("hook", q[i].dev)
      BY <2>1, <3>1 DEF Stretch, HooksFollow
    <3>2. i + 1 \in 1 .. Len(q) => i + 1 \in 1 .. Len(q) + Len(s) /\ (q \o s)[i + 1] = q[i + 1]
      BY <1>2
    <3>3. q[i].do \in phase /\ StepOK(r, q[i])
      BY <2>1 DEF Stretch
    <3> QED
      BY <1>2, <2>1, <3>1, <3>2, <3>3
  <2>2. ASSUME NEW j \in DOMAIN s, i = Len(q) + j, (q \o s)[i] = s[j]
        PROVE  Fits(i)
    <3>1. ASSUME s[j].do = "delete"
          PROVE  j + 1 \in DOMAIN s /\ s[j + 1] = Do("hook", s[j].dev)
      BY <2>2, <3>1 DEF Stretch, HooksFollow
    <3>2. j + 1 \in 1 .. Len(s) =>
              i + 1 \in 1 .. Len(q) + Len(s) /\ (q \o s)[i + 1] = s[j + 1]
      <4>1. ASSUME j + 1 \in 1 .. Len(s)
            PROVE  i + 1 \in 1 .. Len(q) + Len(s) /\ i + 1 = Len(q) + (j + 1)
        BY <1>2, <2>2, <4>1
      <4> QED
        BY <1>2, <4>1
    <3>3. s[j].do \in phase /\ StepOK(r, s[j])
      BY <2>2 DEF Stretch
    <3> QED
      BY <1>2, <2>2, <3>1, <3>2, <3>3
  <2> QED
    BY <1>1, <2>1, <2>2, Places
<1> QED
  BY <1>2, <1>3 DEF Stretch, HooksFollow

LEMMA Empty ==
    ASSUME NEW r, NEW phase
    PROVE  Stretch(r, <<>>, phase)
BY EmptySeq DEF Stretch, HooksFollow

LEMMA Single ==
    ASSUME NEW r, NEW phase, NEW s \in Step, s.do \in phase, s.do # "delete", StepOK(r, s)
    PROVE  Stretch(r, <<s>>, phase)
<1>1. <<s>> \in Seq(Step) /\ DOMAIN <<s>> = {1} /\ <<s>>[1] = s
  OBVIOUS
<1> QED
  BY <1>1 DEF Stretch, HooksFollow

LEMMA TailStretch ==
    ASSUME NEW r, NEW phase, NEW s, s # <<>>, Stretch(r, s, phase)
    PROVE  /\ Stretch(r, Tail(s), phase)
           /\ Head(s) \in Step /\ Head(s).do \in phase /\ StepOK(r, Head(s))
           /\ Head(s).do = "delete" => Contains(Tail(s), Do("hook", Head(s).dev))
<1>1. s \in Seq(Step)
  BY DEF Stretch
<1> DEFINE q == Tail(s)
<1>2. /\ Len(s) \in Nat \ {0} /\ DOMAIN s = 1 .. Len(s) /\ Head(s) = s[1] /\ Head(s) \in Step
      /\ q \in Seq(Step) /\ Len(q) = Len(s) - 1
      /\ DOMAIN q = 1 .. Len(s) - 1 /\ \A i \in 1 .. Len(s) - 1 : q[i] = s[i + 1]
  BY <1>1, HeadAndTail
<1> HIDE DEF q
<1>3. ASSUME NEW i \in DOMAIN q
      PROVE  /\ q[i].do \in phase /\ StepOK(r, q[i])
             /\ q[i].do = "delete" => i + 1 \in DOMAIN q /\ q[i + 1] = Do("hook", q[i].dev)
  <2>1. i + 1 \in DOMAIN s /\ q[i] = s[i + 1]
    BY <1>2
  <2>2. s[i + 1].do \in phase /\ StepOK(r, s[i + 1])
    BY <2>1 DEF Stretch
  <2>3. ASSUME s[i + 1].do = "delete"
        PROVE  i + 1 \in DOMAIN q /\ q[i + 1] = Do("hook", s[i + 1].dev)
    <3>1. (i + 1) + 1 \in DOMAIN s /\ s[(i + 1) + 1] = Do("hook", s[i + 1].dev)
      BY <2>1, <2>3 DEF Stretch, HooksFollow
    <3>2. i + 1 \in 1 .. Len(s) - 1
      BY <1>2, <3>1
    <3> QED
      BY <1>2, <3>1, <3>2
  <2> QED
    BY <2>1, <2>2, <2>3
<1>4. 1 \in DOMAIN s
  BY <1>2
<1>5. ASSUME s[1].do = "delete"
      PROVE  Contains(q, Do("hook", s[1].dev))
  <2>1. 1 + 1 \in DOMAIN s /\ s[1 + 1] = Do("hook", s[1].dev)
    BY <1>4, <1>5 DEF Stretch, HooksFollow
  <2>2. 1 \in 1 .. Len(s) - 1 /\ 1 \in 1 .. Len(q)
    BY <1>2, <2>1
  <2> QED
    BY <1>2, <2>1, <2>2 DEF Contains
<1>6. Stretch(r, q, phase)
  BY <1>2, <1>3 DEF Stretch, HooksFollow
<1>7. s[1].do \in phase /\ StepOK(r, s[1])
  BY <1>4 DEF Stretch
<1> QED
  BY <1>2, <1>5, <1>6, <1>7 DEF q

LEMMA EachAre ==
    ASSUME NEW r, NEW phase, NEW devices \in Seq(Device),
           NEW what \in {"ask", "claim"}, what \in phase,
           \A d \in Device : StepOK(r, Do(what, d))
    PROVE  /\ Stretch(r, Each(what, devices), phase)
           /\ \A d \in ToSet(devices) : Contains(Each(what, devices), Do(what, d))
           /\ devices # <<>> => Each(what, devices) # <<>>
<1>1. /\ Len(devices) \in Nat /\ DOMAIN devices = 1 .. Len(devices)
      /\ \A i \in 1 .. Len(devices) : devices[i] \in Device
  BY LenProperties, ElementOfSeq
<1>2. PICK e : e = Each(what, devices)
  OBVIOUS
<1>3. DOMAIN e = 1 .. Len(devices) /\ \A i \in 1 .. Len(devices) : e[i] = Do(what, devices[i])
  BY <1>1, <1>2 DEF Each
<1>4. \A d \in Device : Do(what, d) \in Step /\ Do(what, d).do = what
  BY DEF Do, Step
<1>5. e \in [1 .. Len(devices) -> Step]
  BY <1>1, <1>2, <1>4 DEF Each
<1>6. e \in Seq(Step) /\ Len(e) = Len(devices)
  BY <1>1, <1>5, SeqDef, LenProperties
<1>7. Stretch(r, e, phase)
  BY <1>1, <1>3, <1>4, <1>6 DEF Stretch, HooksFollow
<1>8. \A d \in ToSet(devices) : Contains(e, Do(what, d))
  BY <1>1, <1>3, <1>6 DEF ToSet, Contains
<1>9. devices # <<>> => e # <<>>
  BY <1>6, EmptySeq
<1> QED
  BY <1>2, <1>7, <1>8, <1>9

LEMMA ReleasesAre ==
    ASSUME NEW r, NEW devices \in Seq(Device)
    PROVE  Stretch(r, Releases(devices), Tearing)
<1>1. /\ Len(devices) \in Nat /\ DOMAIN devices = 1 .. Len(devices)
      /\ \A i \in 1 .. Len(devices) : devices[i] \in Device
  BY LenProperties, ElementOfSeq
<1>2. PICK n \in Nat : n = Len(devices)
  BY <1>1
<1>3. PICK e : e = Releases(devices)
  OBVIOUS
<1>4. \A i \in 1 .. 2 * n : (i + 1) \div 2 \in 1 .. n
  BY SMT
<1>5. \A i \in 1 .. 2 * n :
         i % 2 = 1 => /\ i + 1 \in 1 .. 2 * n /\ ~((i + 1) % 2 = 1)
                      /\ ((i + 1) + 1) \div 2 = (i + 1) \div 2
  BY SMT
<1>6. /\ DOMAIN e = 1 .. 2 * n
      /\ \A i \in 1 .. 2 * n :
            e[i] = Do(IF i % 2 = 1 THEN "delete" ELSE "hook", devices[(i + 1) \div 2])
  BY <1>2, <1>3 DEF Releases
<1>7. ASSUME NEW i \in 1 .. 2 * n
      PROVE  /\ e[i] \in Step /\ e[i].do \in {"delete", "hook"} /\ StepOK(r, e[i])
             /\ e[i].do = "delete" <=> i % 2 = 1
             /\ e[i].dev = devices[(i + 1) \div 2]
  <2>1. devices[(i + 1) \div 2] \in Device
    BY <1>1, <1>2, <1>4
  <2>2. PICK d \in Device : d = devices[(i + 1) \div 2]
    BY <2>1
  <2>3. e[i] = Do(IF i % 2 = 1 THEN "delete" ELSE "hook", d)
    BY <1>6, <2>2
  <2> QED
    BY <2>2, <2>3 DEF Do, Step, StepOK, Asking, Setting
<1>8. ASSUME NEW i \in 1 .. 2 * n, e[i].do = "delete"
      PROVE  i + 1 \in 1 .. 2 * n /\ e[i + 1] = Do("hook", e[i].dev)
  BY <1>5, <1>6, <1>7, <1>8
<1>9. e \in Seq(Step)
  <2>1. PICK m : m = 2 * n
    OBVIOUS
  <2>2. m \in Nat
    BY <1>2, <2>1
  <2>3. e \in [1 .. m -> Step]
    BY <1>2, <1>3, <1>7, <2>1 DEF Releases
  <2> QED
    BY <2>2, <2>3, SeqDef
<1> QED
  BY <1>3, <1>6, <1>7, <1>8, <1>9 DEF Stretch, HooksFollow, Tearing

-----------------------------------------------------------------------------
(* A thread takes a step.                                                    *)

LEMMA SameCaller ==
    ASSUME NEW r, NEW q, NEW s, NEW phase, Stretch(r, s, phase), q.op = r.op, q.group = r.group
    PROVE  Stretch(q, s, phase)
BY DEF Stretch, StepOK

LEMMA OnePhase ==
    ASSUME NEW p \in Phases, NEW q \in Phases, NEW what, what \in p, what \in q
    PROVE  p = q
BY DEF Phases, Asking, Claiming, Tearing, Setting

\* What is known of a thread that is at a step, and of what comes behind it.
LEMMA AtStep ==
    ASSUME RegistryTyped, NEW t \in Thread, NEW phase \in Phases, NEW what \in phase,
           Doing(t, what)
    PROVE  /\ RequestOK(thread[t]) /\ GroupKnown(thread[t])
           /\ Stretch(thread[t], thread[t].todo, phase) /\ Stretch(thread[t], Rest(t), phase)
           /\ Head(thread[t].todo) = Do(what, Dev(t)) /\ StepOK(thread[t], Do(what, Dev(t)))
           /\ what = "delete" => Contains(Rest(t), Do("hook", Dev(t)))
           /\ \A e : Contains(thread[t].todo, e) <=> e = Do(what, Dev(t)) \/ Contains(Rest(t), e)
<1>1. CallOK(thread[t]) /\ GroupKnown(thread[t])
  BY DEF RegistryTyped
<1>2. PICK p \in Phases : Stretch(thread[t], thread[t].todo, p)
  BY <1>1 DEF CallOK, StepsOK
<1>3. thread[t].todo # <<>> /\ Head(thread[t].todo).do = what
  BY DEF Doing, Busy
<1>4. /\ Stretch(thread[t], Rest(t), p) /\ Head(thread[t].todo) \in Step
      /\ what \in p /\ StepOK(thread[t], Head(thread[t].todo))
      /\ what = "delete" => Contains(Rest(t), Do("hook", Dev(t)))
  BY <1>2, <1>3, TailStretch DEF Rest, Dev
<1>5. p = phase
  BY <1>4, OnePhase
<1>6. Head(thread[t].todo) = Do(what, Dev(t))
  BY <1>3, <1>4 DEF Do, Dev, Step
<1>7. thread[t].todo \in Seq(Step)
  BY <1>2 DEF Stretch
<1>8. \A e : Contains(thread[t].todo, e) <=> e = Do(what, Dev(t)) \/ Contains(Rest(t), e)
  BY <1>3, <1>6, <1>7, ContainsHead DEF Rest
<1> QED
  BY <1>1, <1>2, <1>4, <1>5, <1>6, <1>8 DEF CallOK

\* Nothing of another phase is to be done in a stretch.
LEMMA NothingElse ==
    ASSUME NEW r, NEW s, NEW phase, Stretch(r, s, phase), NEW what, what \notin phase, NEW d
    PROVE  ~Contains(s, Do(what, d))
<1>1. s \in Seq(Step) /\ \A i \in DOMAIN s : s[i].do \in phase
  BY DEF Stretch
<1>2. DOMAIN s = 1 .. Len(s)
  BY <1>1, LenProperties
<1> QED
  BY <1>1, <1>2 DEF Contains, Do

LEMMA NothingLeft == \A e : ~Contains(<<>>, e)
BY DEF Contains

\* A thread goes on with a stretch of steps, or ends.
LEMMA GoesOn ==
    ASSUME NEW t \in Thread, DOMAIN thread = Thread, NEW w, RequestOK(w), NEW steps,
           NEW phase \in Phases, Stretch(w, steps, phase), Continue(t, w, steps)
    PROVE  /\ DOMAIN thread' = Thread /\ \A x \in Thread \ {t} : thread'[x] = thread[x]
           /\ CallOK(thread'[t])
           /\ \/ thread'[t].group = 0
              \/ /\ thread'[t].group = w.group /\ thread'[t].op = w.op
                 /\ thread'[t].user = w.user
           /\ \A d : Contains(steps, Do("hook", d)) => Owes(thread'[t], d)
           /\ \A g, d : /\ w.op = "create" /\ w.group = g
                        /\ \/ Contains(steps, Do("claim", d))
                           \/ Contains(steps, Do("insert", d))
                           \/ Contains(steps, Do("drop", None))
                        => Makes(thread'[t], g, d)
<1>1. /\ DOMAIN thread' = Thread /\ \A x \in Thread \ {t} : thread'[x] = thread[x]
      /\ thread'[t] = IF steps = <<>> THEN NoRequest ELSE [w EXCEPT !.todo = steps]
  BY DEF Continue
<1>2. w \in Request /\ steps \in Seq(Step)
  BY DEF RequestOK, Stretch
<1>3. CASE steps = <<>>
  <2>1. thread'[t] = NoRequest
    BY <1>1, <1>3
  <2>2. NoRequest \in Request
    BY DEF NoRequest, Request
  <2>3. Stretch(NoRequest, <<>>, phase)
    BY Empty
  <2>4. CallOK(NoRequest) /\ NoRequest.group = 0
    BY <2>2, <2>3 DEF CallOK, RequestOK, StepsOK, NoRequest
  <2> QED
    BY <1>1, <1>3, <2>1, <2>4, NothingLeft
<1>4. CASE steps # <<>>
  <2>1. PICK q : q = [w EXCEPT !.todo = steps]
    OBVIOUS
  <2>2. /\ q \in Request /\ q.op = w.op /\ q.group = w.group /\ q.user = w.user
        /\ q.wanted = w.wanted /\ q.todo = steps
    BY <1>2, <2>1 DEF Request
  <2>3. Stretch(q, q.todo, phase)
    BY <2>2, SameCaller
  <2>4. CallOK(q)
    BY <2>2, <2>3 DEF CallOK, RequestOK, StepsOK
  <2>5. thread'[t] = q
    BY <1>1, <1>4, <2>1
  <2> QED
    BY <1>1, <2>2, <2>4, <2>5 DEF Owes, Makes
<1> QED
  BY <1>3, <1>4

-----------------------------------------------------------------------------
(* What a step leaves of the invariant.                                      *)

\* The groups there were, and who made them, are known after a step as before.
GroupsKept ==
    /\ DOMAIN groups \subseteq DOMAIN groups'
    /\ \A g \in DOMAIN groups : groups'[g].owner = groups[g].owner

\* All threads but one go on as they were.
OthersWait(t) == DOMAIN thread' = Thread /\ \A x \in Thread \ {t} : thread'[x] = thread[x]

LEMMA StillKnown ==
    ASSUME GroupsKept, NEW r, GroupKnown(r), NEW q,
           \/ q.group = 0
           \/ q.group = r.group /\ q.op = r.op /\ q.user = r.user
    PROVE  q.group # 0 =>
              q.group \in DOMAIN groups' /\ (q.op = "create" => groups'[q.group].owner = q.user)
BY DEF GroupsKept, GroupKnown

LEMMA ThreadsTyped ==
    ASSUME RegistryTyped, GroupsKept, NEW t \in Thread, OthersWait(t), CallOK(thread'[t]),
           thread'[t].group # 0 =>
              /\ thread'[t].group \in DOMAIN groups'
              /\ thread'[t].op = "create" => groups'[thread'[t].group].owner = thread'[t].user
    PROVE  (DOMAIN thread = Thread /\ \A x \in Thread : CallOK(thread[x]) /\ GroupKnown(thread[x]))'
<1>1. ASSUME NEW x \in Thread
      PROVE  CallOK(thread'[x]) /\ GroupKnown(thread[x])'
  <2>1. CASE x = t
    BY <2>1 DEF GroupKnown
  <2>2. CASE x # t
    <3>1. thread'[x] = thread[x] /\ CallOK(thread[x]) /\ GroupKnown(thread[x])
      BY <2>2 DEF OthersWait, RegistryTyped
    <3>2. \/ thread'[x].group = 0
          \/ /\ thread'[x].group = thread[x].group /\ thread'[x].op = thread[x].op
             /\ thread'[x].user = thread[x].user
      BY <3>1
    <3>3. thread'[x].group # 0 =>
              /\ thread'[x].group \in DOMAIN groups'
              /\ thread'[x].op = "create" => groups'[thread'[x].group].owner = thread'[x].user
      BY <3>1, <3>2, StillKnown
    <3> QED
      BY <3>1, <3>3 DEF GroupKnown
  <2> QED
    BY <2>1, <2>2
<1>2. (\A x \in Thread : CallOK(thread[x]) /\ GroupKnown(thread[x]))'
  BY <1>1 DEF CallOK, RequestOK, StepsOK, Stretch, StepOK, HooksFollow
<1> QED
  BY <1>2 DEF OthersWait

\* Groups that lose members, or go, stay apart.
LEMMA StaySeparate ==
    ASSUME Separate, listed' \subseteq listed,
           \A g \in listed' : /\ groups'[g].master = groups[g].master
                              /\ IsInjective(groups'[g].slaves)
                              /\ ToSet(groups'[g].slaves) \subseteq ToSet(groups[g].slaves)
    PROVE  Separate'
BY DEF Separate, MemberOf

\* Groups that lose members, or go, stay backed if each member that the thread
\* of the step accounted for is held or accounted for by it still.
LEMMA StayBacked ==
    ASSUME Backed, listed' \subseteq listed, users' \subseteq users,
           NEW t \in Thread, OthersWait(t),
           \A g \in listed' : groups'[g].owner = groups[g].owner,
           \A g \in listed', d \in Device : MemberOf(groups'[g], d) => MemberOf(groups[g], d),
           \A g \in listed', d \in Device :
              /\ groups'[g].owner \in users' /\ MemberOf(groups'[g], d)
              /\ holder[d] = groups[g].owner \/ Accounts(thread[t], g, d)
              => holder'[d] = groups[g].owner \/ Accounts(thread'[t], g, d)
    PROVE  Backed'
<1>1. ASSUME NEW g \in listed', NEW d \in Device,
             groups'[g].owner \in users', MemberOf(groups'[g], d)
      PROVE  \/ holder'[d] = groups'[g].owner
             \/ \E x \in Thread : Accounts(thread'[x], g, d)
  <2>1. \/ holder[d] = groups[g].owner
        \/ \E x \in Thread : Accounts(thread[x], g, d)
    BY <1>1 DEF Backed
  <2>2. CASE holder[d] = groups[g].owner \/ Accounts(thread[t], g, d)
    BY <1>1, <2>2
  <2>3. ASSUME NEW x \in Thread \ {t}, Accounts(thread[x], g, d)
        PROVE  Accounts(thread'[x], g, d)
    BY <2>3 DEF OthersWait
  <2> QED
    BY <2>1, <2>2, <2>3
<1> QED
  BY <1>1 DEF Backed, Accounts, Owes, Makes, MemberOf

\* The registry lists groups that were made.
LEMMA ListedAreMade ==
    ASSUME RegistryTyped
    PROVE  /\ \A g \in listed : /\ g \in 1 .. Len(groups) /\ g \in GroupId /\ g # 0
                                /\ groups[g] \in Group
           /\ Len(groups) \in Nat /\ DOMAIN groups = 1 .. Len(groups)
<1>1. Len(groups) \in Nat /\ DOMAIN groups = 1 .. Len(groups) /\ MaxGroups \in Nat
      /\ Len(groups) <= MaxGroups /\ listed \subseteq DOMAIN groups /\ groups \in Seq(Group)
  BY SyncAssumption, LenProperties DEF RegistryTyped
<1>2. \A g \in 1 .. Len(groups) : g \in GroupId /\ g # 0 /\ groups[g] \in Group
  BY <1>1, ElementOfSeq DEF GroupId
<1> QED
  BY <1>1, <1>2

\* Steps that leave the registry, the accounts and the reservations alone.
LEMMA OnlyThread ==
    ASSUME GroupsInvariant, UNCHANGED <<users, holder, registry>>, calls' \in 0 .. MaxCalls,
           NEW t \in Thread, OthersWait(t), CallOK(thread'[t]),
           \/ thread'[t].group = 0
           \/ /\ thread'[t].group = thread[t].group /\ thread'[t].op = thread[t].op
              /\ thread'[t].user = thread[t].user
           \/ thread'[t].group \in DOMAIN groups /\ thread'[t].op # "create",
           \A g \in listed, d \in Device :
              Accounts(thread[t], g, d) =>
                 holder[d] = groups[g].owner \/ Accounts(thread'[t], g, d)
    PROVE  GroupsInvariant'
<1>1. RegistryTyped /\ Separate /\ Backed
  BY DEF GroupsInvariant
<1>2. users' = users /\ holder' = holder /\ groups' = groups /\ listed' = listed
  BY DEF registry
<1>3. GroupsKept
  BY <1>2 DEF GroupsKept
<1>4. GroupKnown(thread[t])
  BY <1>1 DEF RegistryTyped
<1>5. thread'[t].group # 0 =>
          /\ thread'[t].group \in DOMAIN groups'
          /\ thread'[t].op = "create" => groups'[thread'[t].group].owner = thread'[t].user
  BY <1>2, <1>4 DEF GroupKnown
<1>6. RegistryTyped'
  <2>1. (DOMAIN thread = Thread /\ \A x \in Thread : CallOK(thread[x]) /\ GroupKnown(thread[x]))'
    BY <1>1, <1>3, <1>5, ThreadsTyped
  <2> QED
    BY <1>1, <1>2, <2>1 DEF RegistryTyped
<1>7. Separate'
  BY <1>1, <1>2 DEF Separate, MemberOf
<1>8. Backed'
  BY <1>1, <1>2, StayBacked
<1> QED
  BY <1>6, <1>7, <1>8 DEF GroupsInvariant

-----------------------------------------------------------------------------
(* The actions: requests that arrive, claims and accounts.                   *)

\* An arriving request drops nothing: the thread had nothing left to do.
LEMMA ArriveStep ==
    ASSUME GroupsInvariant, NEW t \in Thread, NEW work, Arrive(t, work),
           RequestOK(work), NEW phase \in Phases, Stretch(work, work.todo, phase),
           work.group = 0 \/ (work.group \in DOMAIN groups /\ work.op # "create")
    PROVE  GroupsInvariant'
<1>1. RegistryTyped
  BY DEF GroupsInvariant
<1>2. /\ ~Busy(t) /\ calls < MaxCalls /\ calls' = calls + 1
      /\ thread' = [thread EXCEPT ![t] = work]
      /\ UNCHANGED <<users, holder, registry>>
  BY DEF Arrive
<1>3. calls' \in 0 .. MaxCalls
  BY <1>1, <1>2, SyncAssumption DEF RegistryTyped
<1>4. DOMAIN thread = Thread
  BY <1>1 DEF RegistryTyped
<1>5. OthersWait(t) /\ thread'[t] = work
  BY <1>2, <1>4 DEF OthersWait
<1>6. CallOK(work)
  BY DEF CallOK, StepsOK
<1>7. \A g, d : ~Accounts(thread[t], g, d)
  BY <1>2, NothingLeft DEF Busy, Accounts, Owes, Makes
<1> QED
  BY <1>2, <1>3, <1>5, <1>6, <1>7, OnlyThread

LEMMA NoRequestTyped == NoRequest \in Request
BY DEF NoRequest, Request

LEMMA CreateArrivesStep ==
    ASSUME GroupsInvariant, NEW t \in Thread, NEW u \in User, NEW m \in Device,
           NEW slaves \in Wanted, CreateArrives(t, u, m, slaves)
    PROVE  GroupsInvariant'
<1> DEFINE rest == SetToSeq(slaves \ {m})
           wanted == <<m>> \o rest
           steps == Append(Each("ask", wanted), Do("create", None))
           work == [NoRequest EXCEPT !.op = "create", !.user = u, !.wanted = wanted,
                                     !.todo = steps]
<1>1. Arrive(t, work)
  BY DEF CreateArrives
<1>2. slaves \ {m} \in SUBSET Device /\ IsFiniteSet(slaves \ {m})
  BY SyncAssumption, FS_Difference
<1>3. rest \in Seq(Device) /\ IsInjective(rest) /\ m \notin ToSet(rest)
  <2>1. PICK others : others = slaves \ {m}
    OBVIOUS
  <2>2. /\ SetToSeq(others) \in Seq(Device) /\ IsInjective(SetToSeq(others))
        /\ ToSet(SetToSeq(others)) \subseteq others
    BY <1>2, <2>1, Listed
  <2> QED
    BY <2>1, <2>2
<1> HIDE DEF rest
<1>4. wanted \in Seq(Device) /\ IsInjective(wanted) /\ wanted # <<>>
  BY <1>3, Fronted
<1> HIDE DEF wanted
<1>5. Append(Each("ask", wanted), Do("create", None))
        = Each("ask", wanted) \o <<Do("create", None)>>
      /\ Each("ask", wanted) \in Seq(Step)
  <2>1. PICK r : r = [NoRequest EXCEPT !.op = "create"]
    OBVIOUS
  <2>2. \A d \in Device : StepOK(r, Do("ask", d))
    BY <2>1, NoRequestTyped DEF StepOK, Do, NoRequest, Request, Asking, Setting
  <2>3. Each("ask", wanted) \in Seq(Step)
    BY <1>4, <2>2, EachAre DEF Asking, Stretch
  <2>4. Do("create", None) \in Step
    BY DEF Do, Step
  <2> QED
    BY <2>3, <2>4, AppendIsConcat
<1>6. \A q : q.op = "create" /\ q.group = 0 => Stretch(q, steps, Asking)
  <2> SUFFICES ASSUME NEW q, q.op = "create", q.group = 0
               PROVE  Stretch(q, steps, Asking)
    OBVIOUS
  <2>1. \A d \in Device : StepOK(q, Do("ask", d))
    BY DEF StepOK, Do, Asking, Setting
  <2>2. Stretch(q, Each("ask", wanted), Asking)
    BY <1>4, <2>1, EachAre DEF Asking
  <2>3. /\ Do("create", None) \in Step /\ StepOK(q, Do("create", None))
        /\ Do("create", None).do \in Asking /\ Do("create", None).do # "delete"
    BY DEF StepOK, Do, Step, Asking, Setting
  <2>4. Stretch(q, <<Do("create", None)>>, Asking)
    BY <2>3, Single
  <2> QED
    BY <1>5, <2>2, <2>4, Stretched
<1> HIDE DEF steps
<1>7. PICK w : w = work
  OBVIOUS
<1>8. steps \in Seq(Step)
  <2>1. PICK q : q = [op |-> "create", group |-> 0]
    OBVIOUS
  <2>2. q.op = "create" /\ q.group = 0
    BY <2>1
  <2> QED
    BY <1>6, <2>2 DEF Stretch
<1>9. /\ w \in Request /\ w.op = "create" /\ w.user = u /\ w.group = 0
      /\ w.wanted = wanted /\ w.todo = steps
  BY <1>4, <1>7, <1>8, NoRequestTyped DEF NoRequest, Request
<1>10. RequestOK(w)
  BY <1>4, <1>9 DEF RequestOK
<1>11. Stretch(w, w.todo, Asking) /\ Asking \in Phases
  BY <1>6, <1>9 DEF Phases
<1>12. Arrive(t, w)
  BY <1>1, <1>7
<1> HIDE DEF work
<1> QED
  BY <1>9, <1>10, <1>11, <1>12, ArriveStep

\* The other requests about a group of the registry.
LEMMA AboutArrives ==
    ASSUME GroupsInvariant, NEW t \in Thread, NEW u \in User, NEW g \in listed,
           NEW op \in {"delete", "set"}, NEW what, NEW phase \in Phases, what \in phase,
           Do(what, None) \in Step, what # "delete",
           \A r : r.op = op => StepOK(r, Do(what, None)),
           Arrive(t, [NoRequest EXCEPT !.op = op, !.user = u, !.group = g,
                                       !.todo = <<Do(what, None)>>])
    PROVE  GroupsInvariant'
<1>1. g \in DOMAIN groups /\ g \in GroupId /\ g # 0
  BY ListedAreMade DEF GroupsInvariant
<1>2. PICK w : w = [NoRequest EXCEPT !.op = op, !.user = u, !.group = g,
                                     !.todo = <<Do(what, None)>>]
  OBVIOUS
<1>3. <<Do(what, None)>> \in Seq(Step)
  OBVIOUS
<1>4. w \in Request /\ w.op = op /\ w.group = g /\ w.todo = <<Do(what, None)>>
  BY <1>1, <1>2, <1>3, NoRequestTyped DEF NoRequest, Request
<1>5. RequestOK(w)
  BY <1>1, <1>4 DEF RequestOK
<1>6. Do(what, None).do = what
  BY DEF Do
<1>7. Stretch(w, w.todo, phase)
  BY <1>4, <1>6, Single
<1> QED
  BY <1>1, <1>2, <1>4, <1>5, <1>7, ArriveStep

LEMMA DeleteArrivesStep ==
    ASSUME GroupsInvariant, NEW t \in Thread, NEW u \in User, NEW g \in listed,
           DeleteArrives(t, u, g)
    PROVE  GroupsInvariant'
<1>1. /\ {"dissolve"} \in Phases /\ Do("dissolve", None) \in Step
      /\ \A r : r.op = "delete" => StepOK(r, Do("dissolve", None))
  BY DEF Phases, Do, Step, StepOK, Asking, Setting
<1> QED
  BY <1>1, AboutArrives DEF DeleteArrives

LEMMA SetArrivesStep ==
    ASSUME GroupsInvariant, NEW t \in Thread, NEW u \in User, NEW g \in listed,
           NEW what \in {"enable", "disable"}, SetArrives(t, u, g, what)
    PROVE  GroupsInvariant'
<1>1. /\ Setting \in Phases /\ what \in Setting /\ Do(what, None) \in Step /\ what # "delete"
      /\ \A r : r.op = "set" => StepOK(r, Do(what, None))
  BY DEF Phases, Do, Step, StepOK, Asking, Setting
<1> QED
  BY <1>1, AboutArrives DEF SetArrives

LEMMA ReleaseArrivesStep ==
    ASSUME GroupsInvariant, NEW t \in Thread, NEW d \in Device, ReleaseArrives(t, d)
    PROVE  GroupsInvariant'
<1>1. holder[d] \in User
  BY DEF ReleaseArrives, GroupsInvariant, RegistryTyped
<1>2. <<d>> \in Seq(Device)
  OBVIOUS
<1>3. \A r : Stretch(r, Releases(<<d>>), Tearing)
  BY <1>2, ReleasesAre
<1>4. PICK w : w = [NoRequest EXCEPT !.user = holder[d], !.todo = Releases(<<d>>)]
  OBVIOUS
<1>5. Releases(<<d>>) \in Seq(Step)
  BY <1>3 DEF Stretch
<1>6. w \in Request /\ w.op = "release" /\ w.group = 0 /\ w.todo = Releases(<<d>>)
  BY <1>1, <1>4, <1>5, NoRequestTyped DEF NoRequest, Request
<1>7. RequestOK(w)
  BY <1>6 DEF RequestOK
<1>8. Tearing \in Phases
  BY DEF Phases
<1> QED
  BY <1>3, <1>4, <1>6, <1>7, <1>8, ArriveStep DEF ReleaseArrives

LEMMA ClaimedStep ==
    ASSUME GroupsInvariant, NEW u \in User, NEW d \in Device, Claimed(u, d)
    PROVE  GroupsInvariant'
<1>1. RegistryTyped /\ Separate /\ Backed
  BY DEF GroupsInvariant
<1>2. /\ holder[d] = Nobody /\ calls < MaxCalls /\ calls' = calls + 1
      /\ holder' = [holder EXCEPT ![d] = u]
      /\ users' = users /\ groups' = groups /\ listed' = listed /\ thread' = thread
  BY DEF Claimed, registry
<1>3. calls' \in 0 .. MaxCalls
  BY <1>1, <1>2, SyncAssumption DEF RegistryTyped
<1>4. holder' \in [Device -> User \cup {Nobody}]
  BY <1>1, <1>2 DEF RegistryTyped
<1>5. RegistryTyped'
  BY <1>1, <1>2, <1>3, <1>4
     DEF RegistryTyped, CallOK, RequestOK, StepsOK, Stretch, StepOK, HooksFollow, GroupKnown
<1>6. Separate'
  BY <1>1, <1>2 DEF Separate, MemberOf
<1>7. \A g \in listed : groups[g].owner \in User
  BY <1>1, ListedAreMade DEF Group
<1>8. \A g \in listed, x \in Device : holder[x] = groups[g].owner => holder'[x] = groups[g].owner
  BY <1>1, <1>2, <1>7, SyncAssumption DEF RegistryTyped
<1>9. Backed'
  BY <1>1, <1>2, <1>8 DEF Backed, Accounts, Owes, Makes, MemberOf
<1> QED
  BY <1>5, <1>6, <1>9 DEF GroupsInvariant

LEMMA AccountDeletedStep ==
    ASSUME GroupsInvariant, NEW u \in User, AccountDeleted(u)
    PROVE  GroupsInvariant'
<1>1. RegistryTyped /\ Separate /\ Backed
  BY DEF GroupsInvariant
<1>2. /\ users' = users \ {u}
      /\ holder' = [d \in Device |-> IF holder[d] = u THEN Nobody ELSE holder[d]]
      /\ groups' = groups /\ listed' = listed /\ thread' = thread /\ calls' = calls
  BY DEF AccountDeleted, registry
<1>3. users' \subseteq User /\ holder' \in [Device -> User \cup {Nobody}]
  BY <1>1, <1>2 DEF RegistryTyped
<1>4. RegistryTyped'
  BY <1>1, <1>2, <1>3
     DEF RegistryTyped, CallOK, RequestOK, StepsOK, Stretch, StepOK, HooksFollow, GroupKnown
<1>5. Separate'
  BY <1>1, <1>2 DEF Separate, MemberOf
<1>6. Backed'
  BY <1>1, <1>2 DEF Backed, Accounts, Owes, Makes, MemberOf
<1> QED
  BY <1>4, <1>5, <1>6 DEF GroupsInvariant

-----------------------------------------------------------------------------
(* The actions: a group is asked for, made and claimed.                      *)

LEMMA PhasesAre ==
    /\ Asking \in Phases /\ Claiming \in Phases /\ Tearing \in Phases
    /\ {"dissolve"} \in Phases /\ Setting \in Phases
    /\ "ask" \in Asking /\ "create" \in Asking /\ "claim" \in Claiming /\ "insert" \in Claiming
    /\ "delete" \in Tearing /\ "hook" \in Tearing /\ "drop" \in Tearing
    /\ "enable" \in Setting /\ "disable" \in Setting
    /\ \A phase \in {Asking, Claiming, {"dissolve"}, Setting} : "hook" \notin phase
    /\ "drop" \notin Claiming /\ "claim" \notin Tearing /\ "insert" \notin Tearing
BY DEF Phases, Asking, Claiming, Tearing, Setting

\* While it asks, a request owes nothing and makes nothing.
LEMMA AskingAccountsForNothing ==
    ASSUME RegistryTyped, NEW t \in Thread, NEW what \in Asking, Doing(t, what),
           NEW g \in listed, NEW d
    PROVE  ~Accounts(thread[t], g, d)
<1>1. Stretch(thread[t], thread[t].todo, Asking) /\ StepOK(thread[t], Do(what, Dev(t)))
  BY AtStep, PhasesAre
<1>2. ~Contains(thread[t].todo, Do("hook", d))
  BY <1>1, NothingElse, PhasesAre
<1>3. thread[t].group = 0
  BY <1>1 DEF StepOK, Do
<1> QED
  BY <1>2, <1>3, ListedAreMade DEF Accounts, Owes, Makes

LEMMA AskStep ==
    ASSUME GroupsInvariant, NEW t \in Thread, Ask(t)
    PROVE  GroupsInvariant'
<1>1. RegistryTyped /\ DOMAIN thread = Thread /\ calls \in 0 .. MaxCalls
  BY DEF GroupsInvariant, RegistryTyped
<1>2. /\ Doing(t, "ask") /\ calls' = calls /\ UNCHANGED <<users, holder, registry>>
      /\ \/ Continue(t, thread[t], Rest(t))
         \/ Continue(t, thread[t], <<>>)
  BY DEF Ask
<1>3. RequestOK(thread[t]) /\ Stretch(thread[t], Rest(t), Asking)
  BY <1>1, <1>2, AtStep, PhasesAre
<1>4. PICK steps : Continue(t, thread[t], steps) /\ Stretch(thread[t], steps, Asking)
  BY <1>2, <1>3, Empty
<1>5. /\ OthersWait(t) /\ CallOK(thread'[t])
      /\ \/ thread'[t].group = 0
         \/ /\ thread'[t].group = thread[t].group /\ thread'[t].op = thread[t].op
            /\ thread'[t].user = thread[t].user
  BY <1>1, <1>3, <1>4, GoesOn, PhasesAre DEF OthersWait
<1>6. \A g \in listed, d \in Device : ~Accounts(thread[t], g, d)
  BY <1>1, <1>2, AskingAccountsForNothing, PhasesAre
<1> QED
  BY <1>1, <1>2, <1>5, <1>6, OnlyThread

\* The members of a group are its master and its slaves.
LEMMA MembersAre ==
    ASSUME RegistryTyped, NEW g \in listed
    PROVE  /\ Members(g) \in Seq(Device)
           /\ DOMAIN Members(g) = 1 .. 1 + Len(groups[g].slaves)
           /\ Members(g)[1] = groups[g].master
           /\ \A i \in 1 .. Len(groups[g].slaves) : Members(g)[1 + i] = groups[g].slaves[i]
           /\ \A d : d \in ToSet(Members(g)) <=> MemberOf(groups[g], d)
<1>1. groups[g] \in Group
  BY ListedAreMade
<1>2. PICK m \in Device, s \in Seq(Device) : m = groups[g].master /\ s = groups[g].slaves
  BY <1>1 DEF Group
<1>3. PICK q : q = Members(g)
  OBVIOUS
<1>4. <<m>> \in Seq(Device) /\ Len(<<m>>) = 1 /\ <<m>>[1] = m
  OBVIOUS
<1>5. q = <<m>> \o s
  BY <1>2, <1>3 DEF Members
<1>6. /\ Len(s) \in Nat /\ q \in Seq(Device) /\ DOMAIN q = 1 .. 1 + Len(s) /\ q[1] = m
      /\ \A i \in 1 .. Len(s) : q[1 + i] = s[i]
  BY <1>4, <1>5, Concatenated
<1>7. DOMAIN s = 1 .. Len(s)
  BY LenProperties
<1>8. ASSUME NEW d \in ToSet(q)
      PROVE  d = m \/ d \in ToSet(s)
  <2>1. PICK i \in 1 .. 1 + Len(s) : d = q[i]
    BY <1>6 DEF ToSet
  <2>2. CASE i = 1
    BY <1>6, <2>1, <2>2
  <2>3. CASE i # 1
    <3>1. i - 1 \in 1 .. Len(s) /\ 1 + (i - 1) = i
      BY <1>6, <2>3
    <3>2. d = s[i - 1]
      BY <1>6, <2>1, <3>1
    <3> QED
      BY <1>7, <3>1, <3>2 DEF ToSet
  <2> QED
    BY <2>2, <2>3
<1>9. ASSUME NEW d \in ToSet(s)
      PROVE  d \in ToSet(q)
  <2>1. PICK i \in 1 .. Len(s) : d = s[i]
    BY <1>7 DEF ToSet
  <2>2. 1 + i \in 1 .. 1 + Len(s)
    BY <1>6
  <2> QED
    BY <1>6, <2>1, <2>2 DEF ToSet
<1>10. m \in ToSet(q)
  <2>1. 1 \in 1 .. 1 + Len(s)
    BY <1>6
  <2> QED
    BY <1>6, <2>1 DEF ToSet
<1> QED
  BY <1>2, <1>3, <1>6, <1>8, <1>9, <1>10 DEF MemberOf

\* The lists a group is made of: nothing twice, and nothing that is grouped.
LEMMA WantedAre ==
    ASSUME RegistryTyped, NEW wanted \in Seq(Device), wanted # <<>>, IsInjective(wanted)
    PROVE  /\ wanted[1] \in Device /\ Tail(wanted) \in Seq(Device)
           /\ IsInjective(Tail(wanted)) /\ wanted[1] \notin ToSet(Tail(wanted))
           /\ \A d : d = wanted[1] \/ d \in ToSet(Tail(wanted)) => d \in ToSet(wanted)
<1> DEFINE q == Tail(wanted)
           n == Len(wanted)
<1>1. /\ n \in Nat \ {0} /\ DOMAIN wanted = 1 .. n /\ wanted[1] \in Device
      /\ q \in Seq(Device) /\ DOMAIN q = 1 .. n - 1
      /\ \A i \in 1 .. n - 1 : q[i] = wanted[i + 1]
  BY HeadAndTail
<1> HIDE DEF q, n
<1>2. \A i \in 1 .. n - 1 : i + 1 \in 1 .. n /\ i + 1 # 1
  BY <1>1
<1>3. \A i, j \in 1 .. n : wanted[i] = wanted[j] => i = j
  BY <1>1 DEF IsInjective
<1>4. 1 \in 1 .. n
  BY <1>1
<1>5. ASSUME NEW i \in 1 .. n - 1, NEW j \in 1 .. n - 1, q[i] = q[j]
      PROVE  i = j
  <2>1. i + 1 = j + 1
    BY <1>1, <1>2, <1>3, <1>5
  <2> QED
    BY <1>1, <2>1
<1>6. \A i \in 1 .. n - 1 : q[i] # wanted[1] /\ q[i] \in ToSet(wanted)
  BY <1>1, <1>2, <1>3, <1>4 DEF ToSet
<1>7. IsInjective(q) /\ wanted[1] \notin ToSet(q) /\ ToSet(q) \subseteq ToSet(wanted)
  BY <1>1, <1>5, <1>6 DEF IsInjective, ToSet
<1>8. wanted[1] \in ToSet(wanted)
  BY <1>1, <1>4 DEF ToSet
<1> QED
  BY <1>1, <1>7, <1>8 DEF q

\* A group that is made has members that were in no group, and its request
\* accounts for each of them.
LEMMA GroupMade ==
    ASSUME GroupsInvariant, NEW t \in Thread, NEW r \in Group, NEW g, g = Len(groups) + 1,
           g \in GroupId, groups' = Append(groups, r), listed' = listed \cup {g},
           UNCHANGED <<users, holder, calls>>,
           r.master \notin ToSet(r.slaves), IsInjective(r.slaves),
           \A d \in Device : MemberOf(r, d) => \A h \in listed : ~MemberOf(groups[h], d),
           OthersWait(t), CallOK(thread'[t]),
           \/ thread'[t].group = 0
           \/ thread'[t].group = g /\ thread'[t].user = r.owner,
           \A d \in Device : MemberOf(r, d) => Accounts(thread'[t], g, d),
           \A h \in listed, d \in Device : ~Accounts(thread[t], h, d)
    PROVE  GroupsInvariant'
<1>1. RegistryTyped /\ Separate /\ Backed
  BY DEF GroupsInvariant
<1>2. /\ Len(groups) \in Nat /\ DOMAIN groups = 1 .. Len(groups) /\ groups \in Seq(Group)
      /\ listed \subseteq 1 .. Len(groups)
  BY <1>1, ListedAreMade DEF RegistryTyped
<1>3. /\ groups' \in Seq(Group) /\ Len(groups') = g /\ groups'[g] = r
      /\ DOMAIN groups' = 1 .. g
      /\ \A h \in 1 .. Len(groups) : groups'[h] = groups[h]
  <2>1. groups' \in Seq(Group) /\ Len(groups') = g /\ groups'[g] = r
        /\ \A h \in 1 .. Len(groups) : groups'[h] = groups[h]
    BY <1>2, AppendProperties
  <2> QED
    BY <2>1, LenProperties
<1>4. /\ 1 .. Len(groups) \subseteq 1 .. g /\ g \in 1 .. g /\ g \notin 1 .. Len(groups)
      /\ g # 0 /\ g <= MaxGroups
  BY <1>2, SyncAssumption DEF GroupId
<1>5. GroupsKept
  BY <1>2, <1>3, <1>4 DEF GroupsKept
<1>6. thread'[t].group # 0 =>
          /\ thread'[t].group \in DOMAIN groups'
          /\ thread'[t].op = "create" => groups'[thread'[t].group].owner = thread'[t].user
  BY <1>3, <1>4
<1>7. RegistryTyped'
  <2>1. (DOMAIN thread = Thread /\ \A x \in Thread : CallOK(thread[x]) /\ GroupKnown(thread[x]))'
    BY <1>1, <1>5, <1>6, ThreadsTyped
  <2>2. listed' \subseteq DOMAIN groups'
    BY <1>2, <1>3, <1>4
  <2> QED
    BY <1>1, <1>3, <1>4, <2>1, <2>2 DEF RegistryTyped
<1>8. \A h \in listed : groups'[h] = groups[h] /\ h # g
  BY <1>2, <1>3, <1>4
<1>9. Separate'
  <2>1. ASSUME NEW h \in listed'
        PROVE  /\ groups'[h].master \notin ToSet(groups'[h].slaves)
               /\ IsInjective(groups'[h].slaves)
               /\ \A k \in listed' \ {h}, d \in Device :
                     ~(MemberOf(groups'[h], d) /\ MemberOf(groups'[k], d))
    <3>1. CASE h = g
      <4>1. \A k \in listed' \ {h} : k \in listed
        BY <3>1
      <4> QED
        BY <1>3, <1>8, <3>1, <4>1
    <3>2. CASE h # g
      <4>1. h \in listed /\ groups'[h] = groups[h]
        BY <1>8, <3>2
      <4>2. groups[h].master \notin ToSet(groups[h].slaves) /\ IsInjective(groups[h].slaves)
        BY <1>1, <4>1 DEF Separate
      <4>3. ASSUME NEW k \in listed' \ {h}, NEW d \in Device
            PROVE  ~(MemberOf(groups'[h], d) /\ MemberOf(groups'[k], d))
        <5>1. CASE k = g
          BY <1>3, <4>1, <5>1
        <5>2. CASE k # g
          <6>1. k \in listed \ {h} /\ groups'[k] = groups[k]
            BY <1>8, <5>2
          <6> QED
            BY <1>1, <4>1, <6>1 DEF Separate
        <5> QED
          BY <5>1, <5>2
      <4> QED
        BY <4>1, <4>2, <4>3
    <3> QED
      BY <3>1, <3>2
  <2> QED
    BY <2>1 DEF Separate, MemberOf
<1>10. Backed'
  <2>1. ASSUME NEW h \in listed', NEW d \in Device,
               groups'[h].owner \in users', MemberOf(groups'[h], d)
        PROVE  \/ holder'[d] = groups'[h].owner
               \/ \E x \in Thread : Accounts(thread'[x], h, d)
    <3>1. CASE h = g
      BY <1>3, <2>1, <3>1
    <3>2. CASE h # g
      <4>1. h \in listed /\ groups'[h] = groups[h]
        BY <1>8, <3>2
      <4>2. \/ holder[d] = groups[h].owner
            \/ \E x \in Thread : Accounts(thread[x], h, d)
        BY <1>1, <2>1, <4>1 DEF Backed
      <4>3. ASSUME NEW x \in Thread, Accounts(thread[x], h, d)
            PROVE  Accounts(thread'[x], h, d)
        <5>1. x # t
          BY <4>1, <4>3
        <5> QED
          BY <4>3, <5>1 DEF OthersWait
      <4> QED
        BY <4>1, <4>2, <4>3
    <3> QED
      BY <3>1, <3>2
  <2>2. \A h \in listed', d \in Device :
           groups'[h].owner \in users' /\ MemberOf(groups'[h], d)
           => holder'[d] = groups'[h].owner \/ \E x \in Thread : Accounts(thread'[x], h, d)
    BY <2>1
  <2> QED
    BY <2>2 DEF Backed, Accounts, Owes, Makes, MemberOf
<1> QED
  BY <1>7, <1>9, <1>10 DEF GroupsInvariant

LEMMA CreateStep ==
    ASSUME GroupsInvariant, NEW t \in Thread, Create(t)
    PROVE  GroupsInvariant'
<1>1. RegistryTyped /\ DOMAIN thread = Thread /\ calls \in 0 .. MaxCalls
  BY DEF GroupsInvariant, RegistryTyped
<1> DEFINE wanted == thread[t].wanted
           g == Len(groups) + 1
           r == [owner |-> thread[t].user, master |-> wanted[1],
                 slaves |-> Tail(wanted), enabled |-> TRUE]
           w == [thread[t] EXCEPT !.group = g]
<1>2. /\ Doing(t, "create") /\ UNCHANGED <<users, holder, calls>>
      /\ \/ /\ MayGroup(wanted) /\ g \in GroupId
            /\ groups' = Append(groups, r) /\ listed' = listed \cup {g}
            /\ Continue(t, w, Each("claim", wanted))
         \/ Continue(t, thread[t], <<>>) /\ UNCHANGED registry
  BY DEF Create
<1>3. RequestOK(thread[t]) /\ StepOK(thread[t], Do("create", Dev(t)))
  BY <1>1, <1>2, AtStep, PhasesAre
<1>4. thread[t].op = "create" /\ thread[t].group = 0
  BY <1>3 DEF StepOK, Do, Asking
<1>5. \A h \in listed, d \in Device : ~Accounts(thread[t], h, d)
  BY <1>1, <1>2, AskingAccountsForNothing, PhasesAre
<1>6. CASE Continue(t, thread[t], <<>>) /\ UNCHANGED registry
  <2>1. Stretch(thread[t], <<>>, Asking)
    BY Empty
  <2>2. /\ OthersWait(t) /\ CallOK(thread'[t])
        /\ \/ thread'[t].group = 0
           \/ /\ thread'[t].group = thread[t].group /\ thread'[t].op = thread[t].op
              /\ thread'[t].user = thread[t].user
    BY <1>1, <1>3, <1>6, <2>1, GoesOn, PhasesAre DEF OthersWait
  <2>3. UNCHANGED <<users, holder, registry>> /\ calls' \in 0 .. MaxCalls
    BY <1>1, <1>2, <1>6
  <2> QED
    BY <1>5, <2>2, <2>3, OnlyThread
<1>7. CASE /\ MayGroup(wanted) /\ g \in GroupId
           /\ groups' = Append(groups, r) /\ listed' = listed \cup {g}
           /\ Continue(t, w, Each("claim", wanted))
  <2>1. /\ wanted \in Seq(Device) /\ wanted # <<>> /\ IsInjective(wanted)
        /\ thread[t].user \in User
    BY <1>3, <1>4 DEF RequestOK, Request
  <2>2. Len(groups) \in Nat /\ g # 0
    BY <1>1, ListedAreMade
  <2>3. PICK q : q = w
    OBVIOUS
  <2>4. /\ q \in Request /\ q.op = "create" /\ q.group = g /\ q.user = thread[t].user
        /\ q.wanted = wanted
    BY <1>3, <1>4, <1>7, <2>3 DEF RequestOK, Request
  <2>5. RequestOK(q)
    BY <2>1, <2>4 DEF RequestOK
  <2>6. /\ wanted[1] \in Device /\ Tail(wanted) \in Seq(Device)
        /\ IsInjective(Tail(wanted)) /\ wanted[1] \notin ToSet(Tail(wanted))
        /\ \A d : d = wanted[1] \/ d \in ToSet(Tail(wanted)) => d \in ToSet(wanted)
    BY <1>1, <2>1, WantedAre
  <2>7. PICK new : new = r
    OBVIOUS
  <2>8. /\ new \in Group /\ new.owner = thread[t].user /\ new.master = wanted[1]
        /\ new.slaves = Tail(wanted)
    BY <1>3, <1>4, <2>6, <2>7 DEF Group, RequestOK
  <2>9. \A d \in Device : StepOK(q, Do("claim", d))
    BY <2>2, <2>4 DEF StepOK, Do, Asking, Setting
  <2>10. /\ Stretch(q, Each("claim", wanted), Claiming)
         /\ \A d \in ToSet(wanted) : Contains(Each("claim", wanted), Do("claim", d))
    BY <2>1, <2>9, EachAre, PhasesAre
  <2>11. Continue(t, q, Each("claim", wanted))
    BY <1>7, <2>3
  <2>12. /\ OthersWait(t) /\ CallOK(thread'[t])
         /\ \/ thread'[t].group = 0
            \/ thread'[t].group = g /\ thread'[t].user = new.owner
    BY <1>1, <2>4, <2>5, <2>8, <2>10, <2>11, GoesOn, PhasesAre DEF OthersWait
  <2>13. \A d : Contains(Each("claim", wanted), Do("claim", d)) => Makes(thread'[t], g, d)
    BY <1>1, <2>4, <2>5, <2>10, <2>11, GoesOn, PhasesAre
  <2>14. \A d : MemberOf(new, d) => d \in ToSet(wanted)
    BY <2>6, <2>8 DEF MemberOf
  <2>15. \A d \in Device : MemberOf(new, d) => Accounts(thread'[t], g, d)
    BY <2>10, <2>13, <2>14 DEF Accounts
  <2>16. ASSUME NEW d \in Device, MemberOf(new, d), NEW h \in listed
         PROVE  ~MemberOf(groups[h], d)
    <3>1. PICK i \in DOMAIN wanted : wanted[i] = d
      BY <2>14, <2>16 DEF ToSet
    <3>2. ~Grouped(d)
      BY <1>7, <3>1 DEF MayGroup
    <3> QED
      BY <1>1, <3>2, MembersAre DEF Grouped
  <2>17. groups' = Append(groups, new) /\ listed' = listed \cup {g} /\ g \in GroupId
    BY <1>7, <2>7
  <2> HIDE DEF wanted, g, r, w
  <2>18. new.master \notin ToSet(new.slaves) /\ IsInjective(new.slaves)
    BY <2>6, <2>8
  <2> QED
    BY <1>2, <1>5, <2>8, <2>12, <2>15, <2>16, <2>17, <2>18, GroupMade DEF g
<1> QED
  BY <1>2, <1>6, <1>7

\* What a claim that fails does: its own reservations, then the group.
LEMMA RollBackIs ==
    ASSUME RegistryTyped, NEW t \in Thread, thread[t].op = "create", thread[t].group # 0
    PROVE  /\ Stretch(thread[t], RollBack(t), Tearing)
           /\ Contains(RollBack(t), Do("drop", None))
<1>1. thread[t].claimed \in Seq(Device)
  BY DEF RegistryTyped, CallOK, RequestOK, Request
<1>2. Stretch(thread[t], Releases(thread[t].claimed), Tearing)
  BY <1>1, ReleasesAre
<1>3. /\ Do("drop", None) \in Step /\ Do("drop", None).do = "drop"
      /\ StepOK(thread[t], Do("drop", None))
  BY DEF Do, Step, StepOK, Asking, Setting
<1>4. Stretch(thread[t], <<Do("drop", None)>>, Tearing)
  BY <1>3, Single, PhasesAre
<1>5. Stretch(thread[t], RollBack(t), Tearing)
  BY <1>2, <1>4, Stretched DEF RollBack
<1>6. Contains(<<Do("drop", None)>>, Do("drop", None))
  BY DEF Contains
<1>7. Contains(RollBack(t), Do("drop", None))
  BY <1>2, <1>4, <1>6, ContainsEither DEF RollBack, Stretch
<1> QED
  BY <1>5, <1>7

\* What a request that claims accounts for: the devices of its own group whose
\* claims are still to come.
LEMMA ClaimingAccounts ==
    ASSUME RegistryTyped, NEW t \in Thread, NEW what \in Claiming, Doing(t, what)
    PROVE  /\ RequestOK(thread[t]) /\ thread[t].op = "create" /\ thread[t].group # 0
           /\ Dev(t) \in Device /\ Stretch(thread[t], Rest(t), Claiming)
           /\ thread[t].group \in DOMAIN groups
           /\ groups[thread[t].group].owner = thread[t].user
           /\ \A g \in listed, d \in Device :
                 Accounts(thread[t], g, d) =>
                    /\ thread[t].group = g
                    /\ \/ d = Dev(t)
                       \/ Contains(Rest(t), Do("claim", d))
                       \/ Contains(Rest(t), Do("insert", d))
<1>1. /\ RequestOK(thread[t]) /\ GroupKnown(thread[t])
      /\ Stretch(thread[t], thread[t].todo, Claiming) /\ Stretch(thread[t], Rest(t), Claiming)
      /\ StepOK(thread[t], Do(what, Dev(t)))
      /\ \A e : Contains(thread[t].todo, e) <=> e = Do(what, Dev(t)) \/ Contains(Rest(t), e)
  BY AtStep, PhasesAre
<1>2. thread[t].op = "create" /\ thread[t].group # 0 /\ Dev(t) \in Device
  BY <1>1 DEF StepOK, Do, Claiming
<1>3. \A d : ~Contains(thread[t].todo, Do("hook", d))
  BY <1>1, NothingElse, PhasesAre
<1>4. ~Contains(thread[t].todo, Do("drop", None))
  BY <1>1, NothingElse, PhasesAre
<1>5. \A d : Do("claim", d) = Do(what, Dev(t)) \/ Do("insert", d) = Do(what, Dev(t)) => d = Dev(t)
  BY DEF Do
<1> QED
  BY <1>1, <1>2, <1>3, <1>4, <1>5 DEF GroupKnown, Accounts, Owes, Makes

\* A request that claims goes on: to claim, or to roll back.
LEMMA ClaimGoesOn ==
    ASSUME RegistryTyped, NEW t \in Thread, NEW what \in Claiming, Doing(t, what),
           NEW w, RequestOK(w), w.op = "create", w.group = thread[t].group,
           w.user = thread[t].user, NEW steps, Continue(t, w, steps),
           NEW phase \in {Claiming, Tearing}, Stretch(w, steps, phase)
    PROVE  /\ OthersWait(t) /\ CallOK(thread'[t])
           /\ \/ thread'[t].group = 0
              \/ /\ thread'[t].group = thread[t].group /\ thread'[t].op = thread[t].op
                 /\ thread'[t].user = thread[t].user
           /\ \A g \in listed, d \in Device :
                 /\ Accounts(thread[t], g, d)
                 /\ \/ Contains(steps, Do("claim", d))
                    \/ Contains(steps, Do("insert", d))
                    \/ Contains(steps, Do("drop", None))
                 => Accounts(thread'[t], g, d)
<1>1. DOMAIN thread = Thread
  BY DEF RegistryTyped
<1>2. /\ thread[t].op = "create"
      /\ \A g \in listed, d \in Device : Accounts(thread[t], g, d) => thread[t].group = g
  BY ClaimingAccounts
<1>3. phase \in Phases
  BY PhasesAre
<1>4. /\ DOMAIN thread' = Thread /\ \A x \in Thread \ {t} : thread'[x] = thread[x]
      /\ CallOK(thread'[t])
      /\ \/ thread'[t].group = 0
         \/ /\ thread'[t].group = w.group /\ thread'[t].op = w.op
            /\ thread'[t].user = w.user
      /\ \A g, d : /\ w.op = "create" /\ w.group = g
                   /\ \/ Contains(steps, Do("claim", d))
                      \/ Contains(steps, Do("insert", d))
                      \/ Contains(steps, Do("drop", None))
                   => Makes(thread'[t], g, d)
  BY <1>1, <1>3, GoesOn
<1> QED
  BY <1>2, <1>4 DEF OthersWait, Accounts

LEMMA NowClaimedOK ==
    ASSUME RegistryTyped, NEW t \in Thread, NEW what \in Claiming, Doing(t, what)
    PROVE  /\ RequestOK(NowClaimed(t)) /\ NowClaimed(t).op = "create"
           /\ NowClaimed(t).group = thread[t].group /\ NowClaimed(t).user = thread[t].user
           /\ Stretch(NowClaimed(t), Rest(t), Claiming)
<1>1. /\ RequestOK(thread[t]) /\ thread[t].op = "create" /\ Dev(t) \in Device
      /\ Stretch(thread[t], Rest(t), Claiming)
  BY ClaimingAccounts
<1>2. PICK claimed \in Seq(Device) : claimed = Append(thread[t].claimed, Dev(t))
  BY <1>1, AppendProperties DEF RequestOK, Request
<1>3. NowClaimed(t) = [thread[t] EXCEPT !.claimed = claimed]
  BY <1>1, <1>2 DEF NowClaimed, RequestOK, Request
<1>4. PICK w : w = NowClaimed(t)
  OBVIOUS
<1>5. /\ w \in Request /\ w.op = thread[t].op /\ w.group = thread[t].group
      /\ w.user = thread[t].user /\ w.wanted = thread[t].wanted
  BY <1>1, <1>3, <1>4 DEF RequestOK, Request
<1>6. RequestOK(w)
  BY <1>1, <1>5 DEF RequestOK
<1>7. Stretch(w, Rest(t), Claiming)
  BY <1>1, <1>5, SameCaller
<1> QED
  BY <1>1, <1>4, <1>5, <1>6, <1>7

LEMMA ClaimStep ==
    ASSUME GroupsInvariant, NEW t \in Thread, Claim(t)
    PROVE  GroupsInvariant'
<1>1. RegistryTyped /\ calls \in 0 .. MaxCalls
  BY DEF GroupsInvariant, RegistryTyped
<1>2. /\ Doing(t, "claim") /\ UNCHANGED <<users, holder, registry>> /\ calls' = calls
      /\ \/ Continue(t, thread[t], RollBack(t))
         \/ /\ holder[Dev(t)] = thread[t].user
            /\ Continue(t, NowClaimed(t), Rest(t))
         \/ Continue(t, thread[t], <<Do("insert", Dev(t))>> \o Rest(t))
  BY DEF Claim
<1>3. /\ RequestOK(thread[t]) /\ thread[t].op = "create" /\ thread[t].group # 0
      /\ Dev(t) \in Device /\ Stretch(thread[t], Rest(t), Claiming)
      /\ groups[thread[t].group].owner = thread[t].user
      /\ \A g \in listed, d \in Device :
            Accounts(thread[t], g, d) =>
               /\ thread[t].group = g
               /\ \/ d = Dev(t)
                  \/ Contains(Rest(t), Do("claim", d))
                  \/ Contains(Rest(t), Do("insert", d))
  BY <1>1, <1>2, ClaimingAccounts, PhasesAre
<1>4. SUFFICES ASSUME NEW w, RequestOK(w), w.op = "create", w.group = thread[t].group,
                      w.user = thread[t].user, NEW steps, Continue(t, w, steps),
                      NEW phase \in {Claiming, Tearing}, Stretch(w, steps, phase),
                      \A d \in Device :
                         /\ \/ d = Dev(t)
                            \/ Contains(Rest(t), Do("claim", d))
                            \/ Contains(Rest(t), Do("insert", d))
                         => \/ holder[d] = thread[t].user
                            \/ Contains(steps, Do("claim", d))
                            \/ Contains(steps, Do("insert", d))
                            \/ Contains(steps, Do("drop", None))
               PROVE  GroupsInvariant'
  <2>1. CASE Continue(t, thread[t], RollBack(t))
    BY <1>1, <1>3, <1>4, <2>1, RollBackIs
  <2>2. CASE holder[Dev(t)] = thread[t].user /\ Continue(t, NowClaimed(t), Rest(t))
    BY <1>1, <1>2, <1>4, <2>2, NowClaimedOK, PhasesAre
  <2>3. CASE Continue(t, thread[t], <<Do("insert", Dev(t))>> \o Rest(t))
    <3>1. /\ Do("insert", Dev(t)) \in Step /\ Do("insert", Dev(t)).do = "insert"
          /\ StepOK(thread[t], Do("insert", Dev(t)))
      BY <1>3 DEF Do, Step, StepOK, Asking, Setting
    <3>2. Stretch(thread[t], <<Do("insert", Dev(t))>>, Claiming)
      BY <3>1, Single, PhasesAre
    <3>3. Stretch(thread[t], <<Do("insert", Dev(t))>> \o Rest(t), Claiming)
      BY <1>3, <3>2, Stretched
    <3>4. Contains(<<Do("insert", Dev(t))>>, Do("insert", Dev(t)))
      BY DEF Contains
    <3>5. \A e : Contains(<<Do("insert", Dev(t))>> \o Rest(t), e)
                   <=> Contains(<<Do("insert", Dev(t))>>, e) \/ Contains(Rest(t), e)
      BY <1>3, <3>2, ContainsEither DEF Stretch
    <3> QED
      BY <1>3, <1>4, <2>3, <3>3, <3>4, <3>5
  <2> QED
    BY <1>2, <2>1, <2>2, <2>3
<1>5. /\ OthersWait(t) /\ CallOK(thread'[t])
      /\ \/ thread'[t].group = 0
         \/ /\ thread'[t].group = thread[t].group /\ thread'[t].op = thread[t].op
            /\ thread'[t].user = thread[t].user
      /\ \A g \in listed, d \in Device :
            /\ Accounts(thread[t], g, d)
            /\ \/ Contains(steps, Do("claim", d))
               \/ Contains(steps, Do("insert", d))
               \/ Contains(steps, Do("drop", None))
            => Accounts(thread'[t], g, d)
  BY <1>1, <1>2, <1>4, ClaimGoesOn, PhasesAre
<1>6. \A g \in listed, d \in Device :
         Accounts(thread[t], g, d) =>
            holder[d] = groups[g].owner \/ Accounts(thread'[t], g, d)
  BY <1>3, <1>4, <1>5
<1> QED
  BY <1>1, <1>2, <1>5, <1>6, OnlyThread

-----------------------------------------------------------------------------
(* The actions: reservations, the hook and the registry.                     *)

\* A step that takes from the registry, and gives or takes a reservation.
LEMMA Takes ==
    ASSUME GroupsInvariant, NEW t \in Thread, OthersWait(t), CallOK(thread'[t]),
           \/ thread'[t].group = 0
           \/ /\ thread'[t].group = thread[t].group /\ thread'[t].op = thread[t].op
              /\ thread'[t].user = thread[t].user,
           users' = users, calls' = calls, holder' \in [Device -> User \cup {Nobody}],
           groups' \in Seq(Group), Len(groups') = Len(groups), listed' \subseteq listed,
           \A g \in DOMAIN groups : groups'[g].owner = groups[g].owner,
           \A g \in listed' : /\ groups'[g].master = groups[g].master
                              /\ IsInjective(groups'[g].slaves)
                              /\ ToSet(groups'[g].slaves) \subseteq ToSet(groups[g].slaves),
           \A g \in listed', d \in Device :
              /\ MemberOf(groups'[g], d)
              /\ holder[d] = groups[g].owner \/ Accounts(thread[t], g, d)
              => holder'[d] = groups[g].owner \/ Accounts(thread'[t], g, d)
    PROVE  GroupsInvariant'
<1>1. RegistryTyped /\ Separate /\ Backed
  BY DEF GroupsInvariant
<1>2. DOMAIN groups = 1 .. Len(groups) /\ DOMAIN groups' = 1 .. Len(groups)
  BY <1>1, LenProperties DEF RegistryTyped
<1>3. GroupsKept
  BY <1>2 DEF GroupsKept
<1>4. GroupKnown(thread[t])
  BY <1>1 DEF RegistryTyped
<1>5. thread'[t].group # 0 =>
          /\ thread'[t].group \in DOMAIN groups'
          /\ thread'[t].op = "create" => groups'[thread'[t].group].owner = thread'[t].user
  BY <1>3, <1>4, StillKnown
<1>6. RegistryTyped'
  <2>1. (DOMAIN thread = Thread /\ \A x \in Thread : CallOK(thread[x]) /\ GroupKnown(thread[x]))'
    BY <1>1, <1>3, <1>5, ThreadsTyped
  <2> QED
    BY <1>1, <1>2, <2>1 DEF RegistryTyped
<1>7. Separate'
  BY <1>1, StaySeparate
<1>8. \A g \in listed' : groups'[g].owner = groups[g].owner
  BY <1>1 DEF RegistryTyped
<1>9. \A g \in listed', d \in Device : MemberOf(groups'[g], d) => MemberOf(groups[g], d)
  BY DEF MemberOf
<1>10. users' \subseteq users
  OBVIOUS
<1>11. Backed'
  BY <1>1, <1>8, <1>9, <1>10, StayBacked
<1> QED
  BY <1>6, <1>7, <1>11 DEF GroupsInvariant

\* A step that leaves the registry as it is.
LEMMA SameRegistry ==
    ASSUME GroupsInvariant, UNCHANGED registry
    PROVE  /\ groups' \in Seq(Group) /\ Len(groups') = Len(groups) /\ listed' \subseteq listed
           /\ \A g \in DOMAIN groups : groups'[g].owner = groups[g].owner
           /\ \A g \in listed' : /\ groups'[g].master = groups[g].master
                                 /\ IsInjective(groups'[g].slaves)
                                 /\ ToSet(groups'[g].slaves) \subseteq ToSet(groups[g].slaves)
BY DEF registry, GroupsInvariant, RegistryTyped, Separate

LEMMA InsertStep ==
    ASSUME GroupsInvariant, NEW t \in Thread, Insert(t)
    PROVE  GroupsInvariant'
<1>1. RegistryTyped /\ calls \in 0 .. MaxCalls
  BY DEF GroupsInvariant, RegistryTyped
<1>2. /\ Doing(t, "insert") /\ users' = users /\ calls' = calls /\ UNCHANGED registry
      /\ \/ /\ holder[Dev(t)] = Nobody /\ thread[t].user \in users
            /\ holder' = [holder EXCEPT ![Dev(t)] = thread[t].user]
            /\ Continue(t, NowClaimed(t), Rest(t))
         \/ Continue(t, thread[t], RollBack(t)) /\ holder' = holder
  BY DEF Insert
<1>3. /\ RequestOK(thread[t]) /\ thread[t].op = "create" /\ thread[t].group # 0
      /\ Dev(t) \in Device /\ Stretch(thread[t], Rest(t), Claiming)
      /\ groups[thread[t].group].owner = thread[t].user
      /\ \A g \in listed, d \in Device :
            Accounts(thread[t], g, d) =>
               /\ thread[t].group = g
               /\ \/ d = Dev(t)
                  \/ Contains(Rest(t), Do("claim", d))
                  \/ Contains(Rest(t), Do("insert", d))
  BY <1>1, <1>2, ClaimingAccounts, PhasesAre
<1>4. holder \in [Device -> User \cup {Nobody}] /\ users \subseteq User
  BY <1>1 DEF RegistryTyped
<1>5. CASE Continue(t, thread[t], RollBack(t)) /\ holder' = holder
  <2>1. Stretch(thread[t], RollBack(t), Tearing) /\ Contains(RollBack(t), Do("drop", None))
    BY <1>1, <1>3, RollBackIs
  <2>2. /\ OthersWait(t) /\ CallOK(thread'[t])
        /\ \/ thread'[t].group = 0
           \/ /\ thread'[t].group = thread[t].group /\ thread'[t].op = thread[t].op
              /\ thread'[t].user = thread[t].user
        /\ \A g \in listed, d \in Device :
              Accounts(thread[t], g, d) => Accounts(thread'[t], g, d)
    BY <1>1, <1>2, <1>3, <1>5, <2>1, ClaimGoesOn, PhasesAre
  <2>3. UNCHANGED <<users, holder, registry>> /\ calls' \in 0 .. MaxCalls
    BY <1>1, <1>2, <1>5
  <2> QED
    BY <2>2, <2>3, OnlyThread
<1>6. CASE /\ holder[Dev(t)] = Nobody /\ thread[t].user \in users
           /\ holder' = [holder EXCEPT ![Dev(t)] = thread[t].user]
           /\ Continue(t, NowClaimed(t), Rest(t))
  <2>1. /\ RequestOK(NowClaimed(t)) /\ NowClaimed(t).op = "create"
        /\ NowClaimed(t).group = thread[t].group /\ NowClaimed(t).user = thread[t].user
        /\ Stretch(NowClaimed(t), Rest(t), Claiming)
    BY <1>1, <1>2, NowClaimedOK, PhasesAre
  <2>2. /\ OthersWait(t) /\ CallOK(thread'[t])
        /\ \/ thread'[t].group = 0
           \/ /\ thread'[t].group = thread[t].group /\ thread'[t].op = thread[t].op
              /\ thread'[t].user = thread[t].user
        /\ \A g \in listed, d \in Device :
              /\ Accounts(thread[t], g, d)
              /\ \/ Contains(Rest(t), Do("claim", d))
                 \/ Contains(Rest(t), Do("insert", d))
                 \/ Contains(Rest(t), Do("drop", None))
              => Accounts(thread'[t], g, d)
    BY <1>1, <1>2, <1>6, <2>1, ClaimGoesOn, PhasesAre
  <2>3. holder' \in [Device -> User \cup {Nobody}]
    BY <1>4, <1>6
  <2>4. holder'[Dev(t)] = thread[t].user /\ \A d \in Device \ {Dev(t)} : holder'[d] = holder[d]
    BY <1>3, <1>4, <1>6
  <2>5. \A g \in listed : groups[g].owner \in User
    BY <1>1, ListedAreMade DEF Group
  <2>6. ASSUME NEW g \in listed, NEW d \in Device,
               holder[d] = groups[g].owner \/ Accounts(thread[t], g, d)
        PROVE  holder'[d] = groups[g].owner \/ Accounts(thread'[t], g, d)
    <3>1. CASE holder[d] = groups[g].owner
      <4>1. d # Dev(t)
        BY <1>6, <2>5, <3>1, SyncAssumption
      <4> QED
        BY <2>4, <3>1, <4>1
    <3>2. CASE Accounts(thread[t], g, d)
      BY <1>3, <2>2, <2>4, <3>2
    <3> QED
      BY <2>6, <3>1, <3>2
  <2>7. /\ groups' \in Seq(Group) /\ Len(groups') = Len(groups) /\ listed' \subseteq listed
        /\ \A g \in DOMAIN groups : groups'[g].owner = groups[g].owner
        /\ \A g \in listed' : /\ groups'[g].master = groups[g].master
                              /\ IsInjective(groups'[g].slaves)
                              /\ ToSet(groups'[g].slaves) \subseteq ToSet(groups[g].slaves)
    BY <1>2, SameRegistry
  <2>8. \A g \in listed', d \in Device :
           /\ MemberOf(groups'[g], d)
           /\ holder[d] = groups[g].owner \/ Accounts(thread[t], g, d)
           => holder'[d] = groups[g].owner \/ Accounts(thread'[t], g, d)
    BY <2>6, <2>7
  <2> QED
    BY <1>2, <2>2, <2>3, <2>7, <2>8, Takes
<1> QED
  BY <1>2, <1>5, <1>6

\* What a thread that tears down accounts for: the hooks to come, and its group
\* as long as it has to drop it.
LEMMA TearingAccounts ==
    ASSUME RegistryTyped, NEW t \in Thread, NEW what \in Tearing, Doing(t, what),
           NEW g, NEW d, Accounts(thread[t], g, d)
    PROVE  \/ Do("hook", d) = Do(what, Dev(t))
           \/ Contains(Rest(t), Do("hook", d))
           \/ /\ thread[t].op = "create" /\ thread[t].group = g
              /\ what = "drop" \/ Contains(Rest(t), Do("drop", None))
<1>1. /\ Stretch(thread[t], thread[t].todo, Tearing)
      /\ \A e : Contains(thread[t].todo, e) <=> e = Do(what, Dev(t)) \/ Contains(Rest(t), e)
  BY AtStep, PhasesAre
<1>2. /\ ~Contains(thread[t].todo, Do("claim", d)) /\ ~Contains(thread[t].todo, Do("insert", d))
  BY <1>1, NothingElse, PhasesAre
<1>3. Do("drop", None) = Do(what, Dev(t)) => what = "drop"
  BY DEF Do
<1> QED
  BY <1>1, <1>2, <1>3 DEF Accounts, Owes, Makes

\* A thread that tears down goes on to do so.
LEMMA TearingGoesOn ==
    ASSUME RegistryTyped, NEW t \in Thread, RequestOK(thread[t]), NEW steps,
           Continue(t, thread[t], steps), Stretch(thread[t], steps, Tearing)
    PROVE  /\ OthersWait(t) /\ CallOK(thread'[t])
           /\ \/ thread'[t].group = 0
              \/ /\ thread'[t].group = thread[t].group /\ thread'[t].op = thread[t].op
                 /\ thread'[t].user = thread[t].user
           /\ \A g, d : Contains(steps, Do("hook", d)) => Accounts(thread'[t], g, d)
           /\ \A g, d : /\ thread[t].op = "create" /\ thread[t].group = g
                        /\ Contains(steps, Do("drop", None))
                        => Accounts(thread'[t], g, d)
<1>1. DOMAIN thread = Thread
  BY DEF RegistryTyped
<1> QED
  BY <1>1, GoesOn, PhasesAre DEF OthersWait, Accounts

LEMMA DeleteStep ==
    ASSUME GroupsInvariant, NEW t \in Thread, Delete(t)
    PROVE  GroupsInvariant'
<1>1. RegistryTyped
  BY DEF GroupsInvariant
<1>2. /\ Doing(t, "delete") /\ users' = users /\ calls' = calls /\ UNCHANGED registry
      /\ holder' = [holder EXCEPT ![Dev(t)] = Nobody]
      /\ Continue(t, thread[t], Rest(t))
  BY DEF Delete
<1>3. /\ RequestOK(thread[t]) /\ Stretch(thread[t], Rest(t), Tearing)
      /\ StepOK(thread[t], Do("delete", Dev(t)))
      /\ Contains(Rest(t), Do("hook", Dev(t)))
  BY <1>1, <1>2, AtStep, PhasesAre
<1>4. /\ OthersWait(t) /\ CallOK(thread'[t])
      /\ \/ thread'[t].group = 0
         \/ /\ thread'[t].group = thread[t].group /\ thread'[t].op = thread[t].op
            /\ thread'[t].user = thread[t].user
      /\ \A g, d : Contains(Rest(t), Do("hook", d)) => Accounts(thread'[t], g, d)
      /\ \A g, d : /\ thread[t].op = "create" /\ thread[t].group = g
                   /\ Contains(Rest(t), Do("drop", None))
                   => Accounts(thread'[t], g, d)
  BY <1>1, <1>2, <1>3, TearingGoesOn
<1>5. holder' \in [Device -> User \cup {Nobody}] /\ \A d \in Device : d # Dev(t) => holder'[d] = holder[d]
  BY <1>1, <1>2 DEF RegistryTyped
<1>6. \A d : Do("hook", d) # Do("delete", Dev(t))
  BY DEF Do
<1>7. ASSUME NEW g, NEW d \in Device, Accounts(thread[t], g, d)
      PROVE  Accounts(thread'[t], g, d)
  <2>1. \/ Contains(Rest(t), Do("hook", d))
        \/ /\ thread[t].op = "create" /\ thread[t].group = g
           /\ Contains(Rest(t), Do("drop", None))
    BY <1>1, <1>2, <1>6, <1>7, TearingAccounts, PhasesAre
  <2> QED
    BY <1>4, <2>1
<1>8. \A g \in listed', d \in Device :
         /\ MemberOf(groups'[g], d)
         /\ holder[d] = groups[g].owner \/ Accounts(thread[t], g, d)
         => holder'[d] = groups[g].owner \/ Accounts(thread'[t], g, d)
  BY <1>3, <1>4, <1>5, <1>7
<1>9. /\ groups' \in Seq(Group) /\ Len(groups') = Len(groups) /\ listed' \subseteq listed
      /\ \A g \in DOMAIN groups : groups'[g].owner = groups[g].owner
      /\ \A g \in listed' : /\ groups'[g].master = groups[g].master
                            /\ IsInjective(groups'[g].slaves)
                            /\ ToSet(groups'[g].slaves) \subseteq ToSet(groups[g].slaves)
  BY <1>2, SameRegistry
<1> QED
  BY <1>2, <1>4, <1>5, <1>8, <1>9, Takes

\* The slaves of groups of the registry are finitely many.
LEMMA OrphansAreFinite ==
    ASSUME RegistryTyped, NEW gone \in SUBSET listed
    PROVE  /\ UNION {ToSet(groups[g].slaves) : g \in gone} \in SUBSET Device
           /\ IsFiniteSet(UNION {ToSet(groups[g].slaves) : g \in gone})
<1>1. /\ Len(groups) \in Nat /\ gone \subseteq 1 .. Len(groups)
      /\ \A g \in gone : groups[g].slaves \in Seq(Device)
  BY ListedAreMade DEF Group
<1>2. \A g \in gone : IsFiniteSet(ToSet(groups[g].slaves)) /\ ToSet(groups[g].slaves) \subseteq Device
  BY <1>1, ListsAreFinite
<1>3. IsFiniteSet(1 .. Len(groups))
  BY <1>1, FS_Interval
<1>4. IsFiniteSet(gone)
  BY <1>1, <1>3, FS_Subset
<1> DEFINE lists == {ToSet(groups[g].slaves) : g \in gone}
           f == [g \in gone |-> ToSet(groups[g].slaves)]
<1>5. f \in Surjection(gone, lists)
  BY DEF Surjection
<1>6. IsFiniteSet(lists)
  BY <1>4, <1>5, FS_Surjection
<1>7. \A x \in lists : IsFiniteSet(x) /\ x \subseteq Device
  BY <1>2
<1> HIDE DEF lists
<1>8. IsFiniteSet(UNION lists) /\ UNION lists \in SUBSET Device
  BY <1>6, <1>7, FS_UNION
<1> QED
  BY <1>8 DEF lists

\* The groups after a device is taken out of those that go on.
LEMMA WithoutDevice ==
    ASSUME RegistryTyped, Separate, NEW d \in Device, NEW kept \in SUBSET listed,
           groups' = [g \in DOMAIN groups |->
                         IF g \in kept /\ d \in ToSet(groups[g].slaves)
                         THEN Without(g, d) ELSE groups[g]]
    PROVE  /\ groups' \in Seq(Group) /\ Len(groups') = Len(groups)
           /\ \A g \in DOMAIN groups : groups'[g].owner = groups[g].owner
           /\ \A g \in kept : /\ groups'[g].master = groups[g].master
                              /\ IsInjective(groups'[g].slaves)
                              /\ ToSet(groups'[g].slaves) \subseteq ToSet(groups[g].slaves)
                              /\ d \notin ToSet(groups'[g].slaves)
<1>1. /\ Len(groups) \in Nat /\ DOMAIN groups = 1 .. Len(groups)
      /\ \A g \in 1 .. Len(groups) : groups[g] \in Group
      /\ kept \subseteq 1 .. Len(groups)
  BY ListedAreMade, ElementOfSeq DEF RegistryTyped
<1>2. ASSUME NEW g \in kept, d \in ToSet(groups[g].slaves)
      PROVE  /\ Without(g, d) \in Group /\ Without(g, d).owner = groups[g].owner
             /\ Without(g, d).master = groups[g].master
             /\ IsInjective(Without(g, d).slaves)
             /\ ToSet(Without(g, d).slaves) \subseteq ToSet(groups[g].slaves) \ {d}
  <2>1. groups[g] \in Group /\ IsInjective(groups[g].slaves)
    BY <1>1 DEF Separate
  <2>2. PICK s \in Seq(Device) : s = groups[g].slaves
    BY <2>1 DEF Group
  <2>3. PICK left : left = RemoveFirst(s, d)
    OBVIOUS
  <2>4. left \in Seq(Device) /\ IsInjective(left) /\ ToSet(left) \subseteq ToSet(s) \ {d}
    BY <1>2, <2>1, <2>2, <2>3, RemovesFirst
  <2>5. PICK still \in BOOLEAN : still = (groups[g].enabled /\ left # <<>>)
    OBVIOUS
  <2>6. Without(g, d) = [groups[g] EXCEPT !.slaves = left, !.enabled = still]
    BY <2>1, <2>2, <2>3, <2>5 DEF Without, Group
  <2>7. PICK w : w = Without(g, d)
    OBVIOUS
  <2>8. /\ w \in Group /\ w.owner = groups[g].owner /\ w.master = groups[g].master
        /\ w.slaves = left
    BY <2>1, <2>4, <2>6, <2>7 DEF Group
  <2> QED
    BY <2>2, <2>4, <2>7, <2>8
<1>3. ASSUME NEW g \in 1 .. Len(groups)
      PROVE  /\ groups'[g] \in Group /\ groups'[g].owner = groups[g].owner
             /\ g \in kept => /\ groups'[g].master = groups[g].master
                              /\ IsInjective(groups'[g].slaves)
                              /\ ToSet(groups'[g].slaves) \subseteq ToSet(groups[g].slaves)
                              /\ d \notin ToSet(groups'[g].slaves)
  <2>1. CASE g \in kept /\ d \in ToSet(groups[g].slaves)
    <3>1. groups'[g] = Without(g, d)
      BY <1>1, <2>1
    <3> QED
      BY <1>2, <2>1, <3>1
  <2>2. CASE ~(g \in kept /\ d \in ToSet(groups[g].slaves))
    <3>1. groups'[g] = groups[g]
      BY <1>1, <2>2
    <3>2. g \in kept => IsInjective(groups[g].slaves)
      BY DEF Separate
    <3> QED
      BY <1>1, <2>2, <3>1, <3>2
  <2> QED
    BY <2>1, <2>2
<1>4. groups' \in [1 .. Len(groups) -> Group]
  BY <1>1, <1>3
<1>5. groups' \in Seq(Group) /\ DOMAIN groups' = 1 .. Len(groups)
  BY <1>1, <1>4, SeqDef
<1>6. Len(groups') = Len(groups)
  BY <1>1, <1>5, LenProperties
<1> QED
  BY <1>1, <1>3, <1>5, <1>6

LEMMA HookStep ==
    ASSUME GroupsInvariant, NEW t \in Thread, Hook(t)
    PROVE  GroupsInvariant'
<1>1. RegistryTyped /\ Separate
  BY DEF GroupsInvariant
<1>2. PICK d : d = Dev(t)
  OBVIOUS
<1>3. PICK gone \in SUBSET listed : gone = MasterOf(d)
  BY DEF MasterOf
<1>4. PICK orphans : orphans = UNION {ToSet(groups[g].slaves) : g \in gone}
  OBVIOUS
<1>5. /\ Doing(t, "hook") /\ UNCHANGED <<users, holder, calls>>
      /\ listed' = listed \ gone
      /\ groups' = [g \in DOMAIN groups |->
                       IF g \in listed \ gone /\ d \in ToSet(groups[g].slaves)
                       THEN Without(g, d) ELSE groups[g]]
      /\ Continue(t, thread[t], Releases(SetToSeq(orphans)) \o Rest(t))
  BY <1>2, <1>3, <1>4 DEF Hook
<1>6. /\ RequestOK(thread[t]) /\ Stretch(thread[t], Rest(t), Tearing) /\ d \in Device
  <2>1. /\ RequestOK(thread[t]) /\ Stretch(thread[t], Rest(t), Tearing)
        /\ StepOK(thread[t], Do("hook", Dev(t)))
    BY <1>1, <1>5, AtStep, PhasesAre
  <2> QED
    BY <1>2, <2>1 DEF StepOK, Do
<1>7. orphans \in SUBSET Device /\ IsFiniteSet(orphans)
  BY <1>1, <1>4, OrphansAreFinite
<1>8. SetToSeq(orphans) \in Seq(Device)
  BY <1>7, Listed
<1>9. PICK more : more = Releases(SetToSeq(orphans))
  OBVIOUS
<1>10. Stretch(thread[t], more, Tearing)
  BY <1>8, <1>9, ReleasesAre
<1>11. Stretch(thread[t], more \o Rest(t), Tearing)
  BY <1>6, <1>10, Stretched
<1>12. \A e : Contains(Rest(t), e) => Contains(more \o Rest(t), e)
  BY <1>6, <1>10, ContainsEither DEF Stretch
<1>13. /\ OthersWait(t) /\ CallOK(thread'[t])
       /\ \/ thread'[t].group = 0
          \/ /\ thread'[t].group = thread[t].group /\ thread'[t].op = thread[t].op
             /\ thread'[t].user = thread[t].user
       /\ \A g, x : Contains(more \o Rest(t), Do("hook", x)) => Accounts(thread'[t], g, x)
       /\ \A g, x : /\ thread[t].op = "create" /\ thread[t].group = g
                    /\ Contains(more \o Rest(t), Do("drop", None))
                    => Accounts(thread'[t], g, x)
  BY <1>1, <1>5, <1>6, <1>9, <1>11, TearingGoesOn
<1>14. PICK kept \in SUBSET listed : kept = listed \ gone
  OBVIOUS
<1>15. /\ groups' \in Seq(Group) /\ Len(groups') = Len(groups)
       /\ \A g \in DOMAIN groups : groups'[g].owner = groups[g].owner
       /\ \A g \in kept : /\ groups'[g].master = groups[g].master
                          /\ IsInjective(groups'[g].slaves)
                          /\ ToSet(groups'[g].slaves) \subseteq ToSet(groups[g].slaves)
                          /\ d \notin ToSet(groups'[g].slaves)
  BY <1>1, <1>5, <1>6, <1>14, WithoutDevice
<1>16. ASSUME NEW g \in listed', NEW x \in Device, MemberOf(groups'[g], x),
              Accounts(thread[t], g, x)
       PROVE  Accounts(thread'[t], g, x)
  <2>1. g \in kept /\ groups[g].master # d
    BY <1>3, <1>5, <1>14 DEF MasterOf
  <2>2. x # d
    BY <1>15, <1>16, <2>1 DEF MemberOf
  <2>3. Do("hook", x) # Do("hook", d)
    BY <2>2 DEF Do
  <2>4. \/ Contains(Rest(t), Do("hook", x))
        \/ /\ thread[t].op = "create" /\ thread[t].group = g
           /\ Contains(Rest(t), Do("drop", None))
    BY <1>1, <1>2, <1>5, <1>16, <2>3, TearingAccounts, PhasesAre
  <2> QED
    BY <1>12, <1>13, <2>4
<1>17. \A g \in listed', x \in Device :
          /\ MemberOf(groups'[g], x)
          /\ holder[x] = groups[g].owner \/ Accounts(thread[t], g, x)
          => holder'[x] = groups[g].owner \/ Accounts(thread'[t], g, x)
  BY <1>5, <1>16
<1>18. /\ users' = users /\ calls' = calls /\ holder' \in [Device -> User \cup {Nobody}]
       /\ listed' = kept
  BY <1>1, <1>5, <1>14 DEF RegistryTyped
<1> QED
  BY <1>13, <1>15, <1>17, <1>18, Takes

\* A group that leaves the registry takes nothing else with it.
LEMMA Leaves ==
    ASSUME GroupsInvariant, NEW g, listed' = listed \ {g}, groups' = groups
    PROVE  /\ groups' \in Seq(Group) /\ Len(groups') = Len(groups) /\ listed' \subseteq listed
           /\ \A h \in DOMAIN groups : groups'[h].owner = groups[h].owner
           /\ \A h \in listed' : /\ groups'[h].master = groups[h].master
                                 /\ IsInjective(groups'[h].slaves)
                                 /\ ToSet(groups'[h].slaves) \subseteq ToSet(groups[h].slaves)
BY DEF GroupsInvariant, RegistryTyped, Separate

LEMMA DropStep ==
    ASSUME GroupsInvariant, NEW t \in Thread, Drop(t)
    PROVE  GroupsInvariant'
<1>1. RegistryTyped /\ holder \in [Device -> User \cup {Nobody}]
  BY DEF GroupsInvariant, RegistryTyped
<1>2. /\ Doing(t, "drop") /\ UNCHANGED <<users, holder, groups, calls>>
      /\ listed' = listed \ {thread[t].group} /\ Continue(t, thread[t], Rest(t))
  BY DEF Drop
<1>3. RequestOK(thread[t]) /\ Stretch(thread[t], Rest(t), Tearing)
  BY <1>1, <1>2, AtStep, PhasesAre
<1>4. /\ OthersWait(t) /\ CallOK(thread'[t])
      /\ \/ thread'[t].group = 0
         \/ /\ thread'[t].group = thread[t].group /\ thread'[t].op = thread[t].op
            /\ thread'[t].user = thread[t].user
      /\ \A g, d : Contains(Rest(t), Do("hook", d)) => Accounts(thread'[t], g, d)
  BY <1>1, <1>2, <1>3, TearingGoesOn
<1>5. \A d : Do("hook", d) # Do("drop", Dev(t))
  BY DEF Do
<1>6. \A g \in listed', d \in Device :
         Accounts(thread[t], g, d) => Accounts(thread'[t], g, d)
  BY <1>1, <1>2, <1>4, <1>5, TearingAccounts, PhasesAre
<1>7. \A g \in listed', d \in Device :
         /\ MemberOf(groups'[g], d)
         /\ holder[d] = groups[g].owner \/ Accounts(thread[t], g, d)
         => holder'[d] = groups[g].owner \/ Accounts(thread'[t], g, d)
  BY <1>2, <1>6
<1>8. /\ groups' \in Seq(Group) /\ Len(groups') = Len(groups) /\ listed' \subseteq listed
      /\ \A h \in DOMAIN groups : groups'[h].owner = groups[h].owner
      /\ \A h \in listed' : /\ groups'[h].master = groups[h].master
                            /\ IsInjective(groups'[h].slaves)
                            /\ ToSet(groups'[h].slaves) \subseteq ToSet(groups[h].slaves)
  BY <1>2, Leaves
<1> QED
  BY <1>1, <1>2, <1>4, <1>7, <1>8, Takes

\* A request that dissolves a group, or sets it, owes nothing and makes nothing.
LEMMA AccountsForNothing ==
    ASSUME RegistryTyped, NEW t \in Thread, NEW phase \in {{"dissolve"}, Setting},
           NEW what \in phase, Doing(t, what), NEW g, NEW d
    PROVE  ~Accounts(thread[t], g, d)
<1>1. phase \in Phases /\ "hook" \notin phase
  BY PhasesAre
<1>2. Stretch(thread[t], thread[t].todo, phase) /\ StepOK(thread[t], Do(what, Dev(t)))
  BY <1>1, AtStep
<1>3. ~Contains(thread[t].todo, Do("hook", d))
  BY <1>1, <1>2, NothingElse
<1>4. thread[t].op # "create"
  BY <1>2 DEF StepOK, Do, Setting
<1> QED
  BY <1>3, <1>4 DEF Accounts, Owes, Makes

LEMMA DissolveStep ==
    ASSUME GroupsInvariant, NEW t \in Thread, Dissolve(t)
    PROVE  GroupsInvariant'
<1>1. RegistryTyped /\ DOMAIN thread = Thread /\ holder \in [Device -> User \cup {Nobody}]
  BY DEF GroupsInvariant, RegistryTyped
<1>2. /\ Doing(t, "dissolve") /\ UNCHANGED <<users, holder, groups, calls>>
      /\ listed' = listed \ {thread[t].group}
      /\ Continue(t, thread[t], Releases(groups[thread[t].group].slaves))
  BY DEF Dissolve
<1>3. RequestOK(thread[t]) /\ GroupKnown(thread[t]) /\ StepOK(thread[t], Do("dissolve", Dev(t)))
  BY <1>1, <1>2, AtStep, PhasesAre
<1>4. thread[t].op = "delete" /\ thread[t].group \in DOMAIN groups
  BY <1>3 DEF StepOK, Do, RequestOK, GroupKnown
<1>5. groups[thread[t].group].slaves \in Seq(Device)
  <2>1. groups \in [1 .. Len(groups) -> Group] /\ DOMAIN groups = 1 .. Len(groups)
    BY <1>1, LenProperties DEF RegistryTyped
  <2>2. groups[thread[t].group] \in Group
    BY <1>4, <2>1
  <2> QED
    BY <2>2 DEF Group
<1>6. Stretch(thread[t], Releases(groups[thread[t].group].slaves), Tearing)
  BY <1>5, ReleasesAre
<1>7. /\ OthersWait(t) /\ CallOK(thread'[t])
      /\ \/ thread'[t].group = 0
         \/ /\ thread'[t].group = thread[t].group /\ thread'[t].op = thread[t].op
            /\ thread'[t].user = thread[t].user
  BY <1>1, <1>2, <1>3, <1>6, TearingGoesOn
<1>8. \A g, d : ~Accounts(thread[t], g, d)
  BY <1>1, <1>2, AccountsForNothing
<1>9. \A g \in listed', d \in Device :
         /\ MemberOf(groups'[g], d)
         /\ holder[d] = groups[g].owner \/ Accounts(thread[t], g, d)
         => holder'[d] = groups[g].owner \/ Accounts(thread'[t], g, d)
  BY <1>2, <1>8
<1>10. /\ groups' \in Seq(Group) /\ Len(groups') = Len(groups) /\ listed' \subseteq listed
       /\ \A h \in DOMAIN groups : groups'[h].owner = groups[h].owner
       /\ \A h \in listed' : /\ groups'[h].master = groups[h].master
                             /\ IsInjective(groups'[h].slaves)
                             /\ ToSet(groups'[h].slaves) \subseteq ToSet(groups[h].slaves)
  BY <1>2, Leaves
<1> QED
  BY <1>1, <1>2, <1>7, <1>9, <1>10, Takes

LEMMA SetEnabledStep ==
    ASSUME GroupsInvariant, NEW t \in Thread, SetEnabled(t)
    PROVE  GroupsInvariant'
<1>1. RegistryTyped /\ Separate /\ holder \in [Device -> User \cup {Nobody}]
      /\ DOMAIN thread = Thread
  BY DEF GroupsInvariant, RegistryTyped
<1>2. PICK set \in BOOLEAN : set = Doing(t, "enable")
  BY DEF Doing, Busy
<1>3. PICK g : g = thread[t].group
  OBVIOUS
<1>4. /\ Doing(t, "enable") \/ Doing(t, "disable")
      /\ UNCHANGED <<users, holder, listed, calls>>
      /\ groups' = IF g \in listed THEN [groups EXCEPT ![g].enabled = set] ELSE groups
      /\ Continue(t, thread[t], Rest(t))
  BY <1>2, <1>3 DEF SetEnabled
<1>5. PICK what \in Setting : Doing(t, what)
  BY <1>4, PhasesAre
<1>6. RequestOK(thread[t]) /\ Stretch(thread[t], Rest(t), Setting)
  BY <1>1, <1>5, AtStep, PhasesAre
<1>7. /\ OthersWait(t) /\ CallOK(thread'[t])
      /\ \/ thread'[t].group = 0
         \/ /\ thread'[t].group = thread[t].group /\ thread'[t].op = thread[t].op
            /\ thread'[t].user = thread[t].user
  BY <1>1, <1>4, <1>6, GoesOn, PhasesAre DEF OthersWait
<1>8. \A h, d : ~Accounts(thread[t], h, d)
  BY <1>1, <1>5, AccountsForNothing
<1>9. /\ Len(groups) \in Nat /\ DOMAIN groups = 1 .. Len(groups) /\ groups \in Seq(Group)
      /\ listed \subseteq 1 .. Len(groups)
      /\ \A h \in 1 .. Len(groups) : groups[h] \in Group
  BY <1>1, ListedAreMade, ElementOfSeq DEF RegistryTyped
<1>10. \A h \in 1 .. Len(groups) :
          /\ groups'[h] \in Group /\ groups'[h].owner = groups[h].owner
          /\ groups'[h].master = groups[h].master /\ groups'[h].slaves = groups[h].slaves
  BY <1>4, <1>9 DEF Group
<1>11. groups' \in [1 .. Len(groups) -> Group]
  <2>1. groups \in [1 .. Len(groups) -> Group]
    BY <1>9, LenProperties
  <2>2. CASE g \in listed
    <3>1. PICK r : r = [groups[g] EXCEPT !.enabled = set]
      OBVIOUS
    <3>2. r \in Group
      BY <1>9, <2>2, <3>1 DEF Group
    <3>3. groups' = [groups EXCEPT ![g] = r]
      BY <1>4, <2>1, <2>2, <3>1
    <3> QED
      BY <2>1, <3>2, <3>3
  <2>3. CASE g \notin listed
    BY <1>4, <2>1, <2>3
  <2> QED
    BY <2>2, <2>3
<1>12. groups' \in Seq(Group) /\ Len(groups') = Len(groups)
  BY <1>9, <1>11, SeqDef, LenProperties
<1>13. \A h \in listed : IsInjective(groups[h].slaves)
  BY <1>1 DEF Separate
<1>14. /\ listed' \subseteq listed
       /\ \A h \in DOMAIN groups : groups'[h].owner = groups[h].owner
       /\ \A h \in listed' : /\ groups'[h].master = groups[h].master
                             /\ IsInjective(groups'[h].slaves)
                             /\ ToSet(groups'[h].slaves) \subseteq ToSet(groups[h].slaves)
  BY <1>4, <1>9, <1>10, <1>13
<1>15. \A h \in listed', d \in Device :
          /\ MemberOf(groups'[h], d)
          /\ holder[d] = groups[h].owner \/ Accounts(thread[t], h, d)
          => holder'[d] = groups[h].owner \/ Accounts(thread'[t], h, d)
  BY <1>4, <1>8
<1> QED
  BY <1>1, <1>4, <1>7, <1>12, <1>14, <1>15, Takes

-----------------------------------------------------------------------------
(* The theorems.                                                             *)

LEMMA InitInvariant == GroupsInit => GroupsInvariant
<1> SUFFICES ASSUME GroupsInit
             PROVE  GroupsInvariant
  OBVIOUS
<1>1. /\ users = User /\ holder = [d \in Device |-> Nobody] /\ groups = <<>> /\ listed = {}
      /\ thread = [t \in Thread |-> NoRequest] /\ calls = 0
  BY DEF GroupsInit
<1>2. CallOK(NoRequest) /\ NoRequest.group = 0
  <2>1. Stretch(NoRequest, <<>>, Tearing)
    BY Empty
  <2> QED
    BY <2>1, NoRequestTyped, PhasesAre DEF CallOK, RequestOK, StepsOK, NoRequest
<1>3. groups \in Seq(Group) /\ Len(groups) <= MaxGroups
  BY <1>1, EmptySeq, SyncAssumption
<1>4. RegistryTyped
  BY <1>1, <1>2, <1>3, SyncAssumption DEF RegistryTyped, GroupKnown
<1>5. Separate /\ Backed
  BY <1>1 DEF Separate, Backed
<1> QED
  BY <1>4, <1>5 DEF GroupsInvariant

LEMMA StepInvariant == GroupsInvariant /\ [GroupsNext]_groupsVars => GroupsInvariant'
<1> SUFFICES ASSUME GroupsInvariant, [GroupsNext]_groupsVars
             PROVE  GroupsInvariant'
  OBVIOUS
<1>1. ASSUME NEW t \in Thread, ThreadStep(t)
      PROVE  GroupsInvariant'
  <2>1. CASE Ask(t)
    BY <2>1, AskStep
  <2>2. CASE Create(t)
    BY <2>2, CreateStep
  <2>3. CASE Claim(t)
    BY <2>3, ClaimStep
  <2>4. CASE Insert(t)
    BY <2>4, InsertStep
  <2>5. CASE Delete(t)
    BY <2>5, DeleteStep
  <2>6. CASE Hook(t)
    BY <2>6, HookStep
  <2>7. CASE Drop(t)
    BY <2>7, DropStep
  <2>8. CASE Dissolve(t)
    BY <2>8, DissolveStep
  <2>9. CASE SetEnabled(t)
    BY <2>9, SetEnabledStep
  <2> QED
    BY <1>1, <2>1, <2>2, <2>3, <2>4, <2>5, <2>6, <2>7, <2>8, <2>9 DEF ThreadStep
<1>2. ASSUME NEW t \in Thread, NEW u \in User, NEW m \in Device, NEW s \in Wanted,
             CreateArrives(t, u, m, s)
      PROVE  GroupsInvariant'
  BY <1>2, CreateArrivesStep
<1>3. ASSUME NEW t \in Thread, NEW u \in User, NEW g \in listed, DeleteArrives(t, u, g)
      PROVE  GroupsInvariant'
  BY <1>3, DeleteArrivesStep
<1>4. ASSUME NEW t \in Thread, NEW u \in User, NEW g \in listed,
             NEW w \in {"enable", "disable"}, SetArrives(t, u, g, w)
      PROVE  GroupsInvariant'
  BY <1>4, SetArrivesStep
<1>5. ASSUME NEW t \in Thread, NEW d \in Device, ReleaseArrives(t, d)
      PROVE  GroupsInvariant'
  BY <1>5, ReleaseArrivesStep
<1>6. ASSUME NEW u \in User, NEW d \in Device, Claimed(u, d)
      PROVE  GroupsInvariant'
  BY <1>6, ClaimedStep
<1>7. ASSUME NEW u \in User, AccountDeleted(u)
      PROVE  GroupsInvariant'
  BY <1>7, AccountDeletedStep
<1>8. CASE UNCHANGED groupsVars
  BY <1>8
     DEF GroupsInvariant, RegistryTyped, CallOK, RequestOK, StepsOK, Stretch, StepOK, HooksFollow,
         GroupKnown, Separate, Backed, Accounts, Owes, Makes, MemberOf, groupsVars
<1> QED
  BY <1>1, <1>2, <1>3, <1>4, <1>5, <1>6, <1>7, <1>8 DEF GroupsNext

THEOREM GroupsInvariantHolds == GroupsSpec => []GroupsInvariant
BY InitInvariant, StepInvariant, PTL DEF GroupsSpec

\* A step changes one thread at most, and no other variable is about threads.
LEMMA StillThreads ==
    ASSUME GroupsInvariant', thread \in [Thread -> Request], [GroupsNext]_groupsVars
    PROVE  thread' \in [Thread -> Request]
<1>1. \A t \in Thread : thread'[t] \in Request
  BY DEF GroupsInvariant, RegistryTyped, CallOK, RequestOK
<1>2. ASSUME NEW t \in Thread, NEW w, thread' = [thread EXCEPT ![t] = w]
      PROVE  thread' \in [Thread -> Request]
  <2>1. w \in Request
    BY <1>1, <1>2
  <2> QED
    BY <1>2, <2>1
<1>3. ASSUME NEW t \in Thread, ThreadStep(t)
      PROVE  thread' \in [Thread -> Request]
  <2>1. \E w, steps : Continue(t, w, steps)
    BY <1>3, Zenon
       DEF ThreadStep, Ask, Create, Claim, Insert, Delete, Hook, Drop, Dissolve, SetEnabled
  <2> QED
    BY <1>2, <2>1, Zenon DEF Continue
<1>4. ASSUME NEW t \in Thread, NEW work, Arrive(t, work)
      PROVE  thread' \in [Thread -> Request]
  BY <1>2, <1>4 DEF Arrive
<1>5. ASSUME thread' = thread
      PROVE  thread' \in [Thread -> Request]
  BY <1>5
<1> QED
  BY <1>3, <1>4, <1>5, Zenon
     DEF GroupsNext, CreateArrives, DeleteArrives, SetArrives, ReleaseArrives, Claimed,
         AccountDeleted, groupsVars

\* Every variable of the registry has its type: no list of members names a
\* device that does not exist, and no thread has a step that is none.
THEOREM GroupsTypeCorrect == GroupsSpec => []GroupsTypeOK
<1> DEFINE Threads == thread \in [Thread -> Request]
<1>1. GroupsInit => Threads
  BY NoRequestTyped DEF GroupsInit
<1>2. GroupsInvariant' /\ Threads /\ [GroupsNext]_groupsVars => Threads'
  BY StillThreads
<1>3. GroupsInvariant /\ Threads => GroupsTypeOK
  BY DEF GroupsInvariant, RegistryTyped, GroupsTypeOK
<1> HIDE DEF Threads
<1> QED
  BY <1>1, <1>2, <1>3, GroupsInvariantHolds, PTL DEF GroupsSpec

\* A device is in one group at most and once in it, for any number of requests
\* that create, dissolve and release at once (sync_groups.py keeps the lookup
\* and the insertion in one section of its lock).
THEOREM GroupsAreDisjoint == GroupsSpec => []OneGroupPerDevice
<1>1. GroupsInvariant => OneGroupPerDevice
  <2> SUFFICES ASSUME GroupsInvariant
               PROVE  OneGroupPerDevice
    OBVIOUS
  <2>1. RegistryTyped /\ Separate
    BY DEF GroupsInvariant
  <2>2. ASSUME NEW g \in listed
        PROVE  IsInjective(Members(g))
    <3>1. groups[g].master \in Device /\ groups[g].slaves \in Seq(Device)
      BY <2>1, ListedAreMade DEF Group
    <3>2. groups[g].master \notin ToSet(groups[g].slaves) /\ IsInjective(groups[g].slaves)
      BY <2>1 DEF Separate
    <3> QED
      BY <3>1, <3>2, Fronted DEF Members
  <2>3. ASSUME NEW g \in listed, NEW h \in listed \ {g}
        PROVE  ToSet(Members(g)) \cap ToSet(Members(h)) = {}
    <3>1. \A d \in ToSet(Members(g)) : d \in Device /\ MemberOf(groups[g], d)
      BY <2>1, MembersAre, ListsAreFinite
    <3>2. \A d \in ToSet(Members(h)) : MemberOf(groups[h], d)
      BY <2>1, MembersAre
    <3> QED
      BY <2>1, <3>1, <3>2 DEF Separate
  <2> QED
    BY <2>2, <2>3 DEF OneGroupPerDevice
<1> QED
  BY <1>1, GroupsInvariantHolds, PTL

\* A member of a group whose owner has an account is held by that owner, or a
\* thread is about to take it out or to claim it: what the coordinate fan-out,
\* which asks for no reservation again, relies on.
THEOREM MembersAreBacked == GroupsSpec => []GroupBacked
<1>1. GroupsInvariant => GroupBacked
  <2> SUFFICES ASSUME GroupsInvariant, NEW g \in listed, groups[g].owner \in users,
                      NEW i \in DOMAIN Members(g)
               PROVE  \/ holder[Members(g)[i]] = groups[g].owner
                      \/ HookOwed(Members(g)[i]) \/ BeingMade(g, Members(g)[i])
    BY DEF GroupBacked
  <2>1. RegistryTyped /\ Backed
    BY DEF GroupsInvariant
  <2>2. PICK d : d = Members(g)[i]
    OBVIOUS
  <2>3. Members(g) \in Seq(Device)
    BY <2>1, MembersAre
  <2>4. d \in Device /\ d \in ToSet(Members(g))
    BY <2>2, <2>3, ListsAreFinite DEF ToSet
  <2>5. MemberOf(groups[g], d)
    BY <2>1, <2>4, MembersAre
  <2>6. holder[d] = groups[g].owner \/ \E t \in Thread : Accounts(thread[t], g, d)
    BY <2>1, <2>4, <2>5 DEF Backed
  <2> QED
    BY <2>2, <2>6 DEF Accounts, Owes, Makes, HookOwed, BeingMade
<1> QED
  BY <1>1, GroupsInvariantHolds, PTL

\* No step puts a group back, or a device into a group that was made.
MembershipShrinks ==
    \A g \in DOMAIN groups :
        g \in listed' =>
            /\ g \in listed /\ groups'[g].owner = groups[g].owner
            /\ \A d : MemberOf(groups'[g], d) => MemberOf(groups[g], d)

LEMMA SameGroups ==
    ASSUME groups' = groups, listed' \subseteq listed
    PROVE  MembershipShrinks
BY DEF MembershipShrinks

LEMMA StepShrinks ==
    ASSUME GroupsInvariant, [GroupsNext]_groupsVars
    PROVE  MembershipShrinks
<1>1. /\ RegistryTyped /\ Separate /\ Len(groups) \in Nat /\ DOMAIN groups = 1 .. Len(groups)
      /\ groups \in Seq(Group) /\ \A g \in 1 .. Len(groups) : groups[g] \in Group
  BY ListedAreMade, ElementOfSeq DEF GroupsInvariant, RegistryTyped
<1>2. CASE UNCHANGED registry
  BY <1>2, SameGroups DEF registry
<1>3. ASSUME NEW t \in Thread, Create(t)
      PROVE  MembershipShrinks
  <2>1. CASE UNCHANGED registry
    BY <2>1, SameGroups DEF registry
  <2>2. ASSUME NEW r, groups' = Append(groups, r), listed' = listed \cup {Len(groups) + 1}
        PROVE  MembershipShrinks
    <3>1. \A g \in 1 .. Len(groups) : groups'[g] = groups[g] /\ g # Len(groups) + 1
      BY <1>1, <2>2
    <3> QED
      BY <1>1, <2>2, <3>1 DEF MembershipShrinks
  <2> QED
    BY <1>3, <2>1, <2>2 DEF Create
<1>4. ASSUME NEW t \in Thread, Hook(t)
      PROVE  MembershipShrinks
  <2>1. PICK d : d = Dev(t)
    OBVIOUS
  <2>2. PICK kept \in SUBSET listed : kept = listed \ MasterOf(d)
    OBVIOUS
  <2>3. /\ Doing(t, "hook") /\ listed' = kept
        /\ groups' = [g \in DOMAIN groups |->
                         IF g \in kept /\ d \in ToSet(groups[g].slaves)
                         THEN Without(g, d) ELSE groups[g]]
    BY <1>4, <2>1, <2>2 DEF Hook
  <2>4. d \in Device
    BY <1>1, <2>1, <2>3, AtStep, PhasesAre DEF StepOK, Do
  <2>5. /\ \A g \in DOMAIN groups : groups'[g].owner = groups[g].owner
        /\ \A g \in kept : /\ groups'[g].master = groups[g].master
                           /\ ToSet(groups'[g].slaves) \subseteq ToSet(groups[g].slaves)
    BY <1>1, <2>3, <2>4, WithoutDevice
  <2> QED
    BY <2>3, <2>5 DEF MembershipShrinks, MemberOf
<1>5. ASSUME NEW t \in Thread, Drop(t) \/ Dissolve(t)
      PROVE  MembershipShrinks
  BY <1>5, SameGroups DEF Drop, Dissolve
<1>6. ASSUME NEW t \in Thread, SetEnabled(t)
      PROVE  MembershipShrinks
  <2>1. PICK g, set : /\ listed' = listed
                      /\ groups' = IF g \in listed THEN [groups EXCEPT ![g].enabled = set]
                                   ELSE groups
    BY <1>6 DEF SetEnabled
  <2>2. \A h \in 1 .. Len(groups) : /\ groups'[h].owner = groups[h].owner
                                    /\ groups'[h].master = groups[h].master
                                    /\ groups'[h].slaves = groups[h].slaves
    BY <1>1, <2>1 DEF Group
  <2> QED
    BY <1>1, <2>1, <2>2 DEF MembershipShrinks, MemberOf
<1>7. ASSUME NEW t \in Thread, NEW work, Arrive(t, work)
      PROVE  UNCHANGED registry
  BY <1>7 DEF Arrive
<1> QED
  BY <1>2, <1>3, <1>4, <1>5, <1>6, <1>7
     DEF GroupsNext, ThreadStep, Ask, Claim, Insert, Delete, CreateArrives, DeleteArrives,
         SetArrives, ReleaseArrives, Claimed, AccountDeleted, groupsVars, registry

\* A group is as large as it ever was when it is made: no call and no race of
\* calls puts a device into a group that exists, changes its owner, or puts a
\* group back that was dissolved (sync_groups.py writes members in create_group
\* and remove_device only).
THEOREM GroupsOnlyShrink == GroupsSpec => [][MembershipShrinks]_groupsVars
<1>1. GroupsInvariant /\ [GroupsNext]_groupsVars => [MembershipShrinks]_groupsVars
  BY StepShrinks
<1> QED
  BY <1>1, GroupsInvariantHolds, PTL DEF GroupsSpec

-----------------------------------------------------------------------------
(* The dispatcher.  The throttle works because its flag is up as long as a   *)
(* tap worker is at work; the device locks, because the lock and the task    *)
(* that entered it know of each other; the pool, because a connection that   *)
(* is in it stays.  Invariant says so and is inductive.                      *)

Tapping(w) == w.phase # "idle" /\ w.kind = "tap"

\* A tap worker keeps the flag up.
FlagUp == \A j \in Job : Tapping(job[j]) => inflight

OneTapping == \A i, j \in Job : Tapping(job[i]) /\ Tapping(job[j]) => i = j

\* Slaves are driven in the last phase only, and a task is inside the lock of its
\* device only while it calls u2.
WorkOK(w) ==
    \A d \in GroupDevice :
        /\ w.task[d].locked => w.task[d].at \in {"look", "connect", "rpc"}
        /\ w.task[d].locked \/ w.task[d].at \in {"check", "owner", "want", "coord"}
              => w.phase = "drive"
        /\ w.phase \in {"idle", "start"} => w.task[d].at = "none"

Works == \A j \in Job : WorkOK(job[j])

\* The lock of a device is held by whoever is inside it.
LockOK == \A j \in Job, d \in GroupDevice : job[j].task[d].locked <=> lock[d] = j

\* A connection in use is the one in the pool.
PoolOK ==
    \A j \in Job, d \in GroupDevice :
        At(j, d, "rpc") => pool[d] # 0 /\ job[j].task[d].conn = pool[d]

Invariant ==
    /\ TypeOK
    /\ FlagUp
    /\ OneTapping
    /\ Works
    /\ LockOK
    /\ PoolOK

-----------------------------------------------------------------------------
(* How the expressions of the actions change the jobs.                       *)

\* A step gives the worker j the work w.
Changed(j, w) ==
    /\ job' \in [Job -> Work]
    /\ job'[j] = w
    /\ \A i \in Job : i # j => job'[i] = job[i]

LEMMA IdleIs ==
    /\ NoTask \in Task /\ Idle \in Work /\ WorkOK(Idle)
    /\ Idle.kind = "inspect" /\ Idle.phase = "idle" /\ Idle.semantic = FALSE
    /\ \A d \in GroupDevice : Idle.task[d] = NoTask
<1>1. NoTask \in Task
  BY DEF NoTask, Task, Place
<1>2. Idle \in Work
  BY <1>1 DEF Idle, Work, Kind
<1> QED
  BY <1>1, <1>2 DEF Idle, WorkOK, NoTask

\* The worker is given other work, none of whose tasks is inside a lock.
LEMMA JobInv ==
    ASSUME Invariant, NEW j \in Job, NEW w \in Work, Changed(j, w), WorkOK(w),
           \A d \in GroupDevice : /\ ~job[j].task[d].locked /\ ~w.task[d].locked
                             /\ w.task[d].at # "rpc",
           Tapping(w) => inflight' /\ (Tapping(job[j]) \/ ~inflight),
           inflight => inflight' \/ (Tapping(job[j]) /\ ~Tapping(w)),
           inflight' \in BOOLEAN, touch' \in BOOLEAN, recent' \in BOOLEAN,
           events' \in 0..MaxEvents, UNCHANGED <<groupState, u2>>
    PROVE  Invariant'
<1>1. job'[j] = w /\ \A i \in Job : i # j => job'[i] = job[i]
  BY DEF Changed
<1>2. TypeOK'
  BY DEF Invariant, TypeOK, Changed, groupState, u2
<1>3. FlagUp' /\ OneTapping'
  BY <1>1 DEF Invariant, FlagUp, OneTapping, Tapping
<1>4. Works'
  BY <1>1 DEF Invariant, Works, WorkOK
<1>5. LockOK'
  BY <1>1 DEF Invariant, LockOK, u2
<1>6. PoolOK'
  BY <1>1 DEF Invariant, PoolOK, At, u2
<1> QED
  BY <1>2, <1>3, <1>4, <1>5, <1>6 DEF Invariant

\* What Become does to the work of j and of the others.
LEMMA BecomeChanges ==
    ASSUME TypeOK, NEW j \in Job, NEW d \in GroupDevice, NEW t \in Task, Become(j, d, t)
    PROVE  \E w \in Work :
              /\ Changed(j, w)
              /\ w.task[d] = t
              /\ \A e \in GroupDevice : e # d => w.task[e] = job[j].task[e]
              /\ w.kind = job[j].kind /\ w.phase = job[j].phase
<1> DEFINE w == [job[j] EXCEPT !.task[d] = t]
<1>1. job[j] \in Work /\ job[j].task \in [GroupDevice -> Task]
  BY DEF TypeOK, Work
<1>2. /\ w \in Work /\ w.task = [job[j].task EXCEPT ![d] = t]
      /\ w.kind = job[j].kind /\ w.phase = job[j].phase
  BY <1>1 DEF Work
<1>3. job' = [job EXCEPT ![j] = w]
  BY DEF Become
<1> HIDE DEF w
<1>4. Changed(j, w)
  BY <1>2, <1>3 DEF Changed, TypeOK
<1> QED
  BY <1>1, <1>2, <1>4

\* A task goes on; it may take or release the lock of its device, and put a
\* connection into the pool where there is none.
LEMMA TaskInv ==
    ASSUME Invariant, NEW j \in Job, NEW d \in GroupDevice, NEW t \in Task, Become(j, d, t),
           job[j].task[d].at # "none",
           t.locked => t.at \in {"look", "connect", "rpc"},
           t.locked \/ t.at \in {"check", "owner", "want", "coord"} => job[j].phase = "drive",
           lock' \in [GroupDevice -> Job \cup {NoJob}],
           \A e \in GroupDevice : e # d => lock'[e] = lock[e],
           t.locked <=> lock'[d] = j,
           \A i \in Job : i # j => (lock'[d] = i <=> lock[d] = i),
           pool' \in [GroupDevice -> Nat], made' \in Nat,
           \A e \in GroupDevice : pool[e] # 0 => pool'[e] = pool[e],
           t.at = "rpc" => pool'[d] # 0 /\ t.conn = pool'[d],
           UNCHANGED <<groupState, throttle, events>>
    PROVE  Invariant'
<1>1. PICK w \in Work : /\ Changed(j, w)
                        /\ w.task[d] = t
                        /\ \A e \in GroupDevice : e # d => w.task[e] = job[j].task[e]
                        /\ w.kind = job[j].kind /\ w.phase = job[j].phase
  BY BecomeChanges DEF Invariant
<1>2. job'[j] = w /\ \A i \in Job : i # j => job'[i] = job[i]
  BY <1>1 DEF Changed
<1>3. TypeOK'
  BY <1>1 DEF Invariant, TypeOK, Changed, groupState, throttle
<1>4. FlagUp' /\ OneTapping'
  BY <1>1, <1>2 DEF Invariant, FlagUp, OneTapping, Tapping, throttle
<1>5. Works'
  <2>1. WorkOK(job[j]) /\ job[j].phase \notin {"idle", "start"}
    BY DEF Invariant, Works, WorkOK
  <2>2. WorkOK(w)
    BY <1>1, <2>1 DEF WorkOK
  <2> QED
    BY <1>2, <2>2 DEF Invariant, Works, WorkOK
<1>6. LockOK'
  BY <1>1, <1>2 DEF Invariant, LockOK
<1>7. PoolOK'
  BY <1>1, <1>2 DEF Invariant, PoolOK, At
<1> QED
  BY <1>3, <1>4, <1>5, <1>6, <1>7 DEF Invariant

\* Steps that change no job.
LEMMA QuietInv ==
    ASSUME Invariant, UNCHANGED <<job, u2, inflight>>,
           on' \in BOOLEAN, members' \subseteq Slave, mine' \subseteq Slave,
           touch' \in BOOLEAN, recent' \in BOOLEAN, events' \in 0..MaxEvents
    PROVE  Invariant'
BY DEF Invariant, TypeOK, FlagUp, OneTapping, Tapping, Works, WorkOK, LockOK, PoolOK, At, u2

-----------------------------------------------------------------------------
(* The events.                                                               *)

LEMMA Counts ==
    ASSUME TypeOK, events < MaxEvents, events' = events + 1
    PROVE  events' \in 0..MaxEvents
BY DispatchAssumption DEF TypeOK

\* A worker is started on the slaves of the group.
LEMMA SpawnChanges ==
    ASSUME Invariant, NEW j \in Job, NEW kind \in Kind, Spawn(j, kind)
    PROVE  \E w \in Work :
              /\ Changed(j, w) /\ WorkOK(w) /\ w.kind = kind /\ w.phase = "start"
              /\ ~Tapping(job[j])
              /\ \A d \in GroupDevice : /\ ~job[j].task[d].locked /\ ~w.task[d].locked
                                   /\ w.task[d].at # "rpc"
              /\ events' \in 0..MaxEvents
<1> DEFINE w == [Idle EXCEPT !.kind = kind, !.phase = "start", !.slaves = members]
<1>1. /\ w \in Work /\ w.kind = kind /\ w.phase = "start"
      /\ \A d \in GroupDevice : w.task[d] = NoTask
  BY IdleIs DEF Invariant, TypeOK, Work
<1>2. job' = [job EXCEPT ![j] = w] /\ job[j].phase = "idle"
  BY DEF Spawn, Free
<1> HIDE DEF w
<1>3. Changed(j, w)
  BY <1>1, <1>2 DEF Changed, Invariant, TypeOK
<1>4. WorkOK(w) /\ \A d \in GroupDevice : ~w.task[d].locked /\ w.task[d].at # "rpc"
  BY <1>1 DEF WorkOK, NoTask
<1>5. ~Tapping(job[j]) /\ \A d \in GroupDevice : ~job[j].task[d].locked
  BY <1>2 DEF Tapping, Invariant, Works, WorkOK
<1>6. events' \in 0..MaxEvents
  BY Counts DEF Spawn, Invariant
<1> QED
  BY <1>1, <1>3, <1>4, <1>5, <1>6

LEMMA TouchTapInv ==
    ASSUME Invariant, NEW j \in Job, TouchTap(j)
    PROVE  Invariant'
<1>1. PICK w \in Work :
              /\ Changed(j, w) /\ WorkOK(w) /\ w.kind = "tap" /\ w.phase = "start"
              /\ ~Tapping(job[j])
              /\ \A d \in GroupDevice : /\ ~job[j].task[d].locked /\ ~w.task[d].locked
                                   /\ w.task[d].at # "rpc"
              /\ events' \in 0..MaxEvents
  BY SpawnChanges DEF TouchTap, Kind
<1>2. ~inflight /\ inflight' = TRUE /\ touch' = FALSE /\ recent' = TRUE
      /\ UNCHANGED <<groupState, u2>>
  BY DEF TouchTap, Allowed
<1> QED
  BY <1>1, <1>2, JobInv

\* The other mirrored events start a worker that is no tap.
LEMMA OtherSpawnInv ==
    ASSUME Invariant, NEW j \in Job, NEW kind \in {"text", "direct"}, Spawn(j, kind),
           touch' \in BOOLEAN, UNCHANGED <<groupState, inflight, recent, u2>>
    PROVE  Invariant'
<1>1. PICK w \in Work :
              /\ Changed(j, w) /\ WorkOK(w) /\ w.kind = kind /\ w.phase = "start"
              /\ ~Tapping(job[j])
              /\ \A d \in GroupDevice : /\ ~job[j].task[d].locked /\ ~w.task[d].locked
                                   /\ w.task[d].at # "rpc"
              /\ events' \in 0..MaxEvents
  BY SpawnChanges DEF Kind
<1>2. inflight' \in BOOLEAN /\ recent' \in BOOLEAN /\ inflight' = inflight /\ ~Tapping(w)
      /\ UNCHANGED <<groupState, u2>>
  BY <1>1 DEF Tapping, Invariant, TypeOK
<1> QED
  BY <1>1, <1>2, JobInv

LEMMA InspectInv ==
    ASSUME Invariant, NEW j \in Job, NEW d \in GroupDevice, Inspect(j, d)
    PROVE  Invariant'
<1> DEFINE t == [NoTask EXCEPT !.at = "look"]
           w == [Idle EXCEPT !.phase = "drive", !.task[d] = t]
<1>1. t \in Task /\ t.at = "look" /\ ~t.locked
  BY DEF NoTask, Task, Place
<1> HIDE DEF t
<1>2. /\ w \in Work /\ w.kind = "inspect" /\ w.phase = "drive"
      /\ w.task = [Idle.task EXCEPT ![d] = t]
  BY <1>1, IdleIs DEF Work
<1>3. job' = [job EXCEPT ![j] = w] /\ job[j].phase = "idle"
  BY DEF Inspect, Free, t
<1> HIDE DEF w
<1>4. Changed(j, w)
  BY <1>2, <1>3 DEF Changed, Invariant, TypeOK
<1>5. \A e \in GroupDevice : w.task[e] = (IF e = d THEN t ELSE NoTask)
  BY <1>2, IdleIs DEF Work
<1>6. WorkOK(w) /\ \A e \in GroupDevice : ~w.task[e].locked /\ w.task[e].at # "rpc"
  BY <1>1, <1>2, <1>5 DEF WorkOK, NoTask
<1>7. ~Tapping(job[j]) /\ \A e \in GroupDevice : ~job[j].task[e].locked
  BY <1>3 DEF Tapping, Invariant, Works, WorkOK
<1>8. events' \in 0..MaxEvents
  BY Counts DEF Inspect, Invariant
<1>9. /\ inflight' \in BOOLEAN /\ recent' \in BOOLEAN /\ touch' \in BOOLEAN
      /\ inflight' = inflight /\ ~Tapping(w) /\ UNCHANGED <<groupState, u2>>
  BY <1>2 DEF Tapping, Invariant, TypeOK, Inspect, throttle
<1> QED
  BY <1>2, <1>4, <1>6, <1>7, <1>8, <1>9, JobInv

-----------------------------------------------------------------------------
(* The worker.                                                               *)

\* Outside of its last phase no task of a worker is inside a lock.
LEMMA Unlocked ==
    ASSUME Invariant, NEW j \in Job,
           \/ job[j].phase # "drive"
           \/ \A d \in GroupDevice : job[j].task[d].at \in {"none", "done"}
    PROVE  \A d \in GroupDevice : ~job[j].task[d].locked
BY DEF Invariant, Works, WorkOK

\* The worker is over, and a tap worker takes its flag down.
LEMMA OverInv ==
    ASSUME Invariant, NEW j \in Job, job' = [job EXCEPT ![j] = Idle], inflight' = Released(j),
           job[j].phase # "idle", \A d \in GroupDevice : ~job[j].task[d].locked,
           UNCHANGED <<groupState, touch, recent, u2, events>>
    PROVE  Invariant'
<1>1. Changed(j, Idle)
  BY IdleIs DEF Changed, Invariant, TypeOK
<1>2. /\ ~Tapping(Idle) /\ WorkOK(Idle) /\ Idle \in Work
      /\ \A d \in GroupDevice : ~Idle.task[d].locked /\ Idle.task[d].at # "rpc"
  BY IdleIs DEF Tapping, NoTask
<1>3. inflight' \in BOOLEAN /\ (inflight => inflight' \/ Tapping(job[j]))
  BY DEF Released, Tapping, Invariant, TypeOK
<1>4. touch' \in BOOLEAN /\ recent' \in BOOLEAN /\ events' \in 0..MaxEvents
  BY DEF Invariant, TypeOK
<1> QED
  BY <1>1, <1>2, <1>3, <1>4, JobInv

\* The worker goes on with the same kind of work.
LEMMA OnwardInv ==
    ASSUME Invariant, NEW j \in Job, NEW w \in Work, job' = [job EXCEPT ![j] = w],
           w.kind = job[j].kind, w.phase # "idle", job[j].phase \in {"start", "build"},
           WorkOK(w), \A d \in GroupDevice : ~w.task[d].locked /\ w.task[d].at # "rpc",
           UNCHANGED <<groupState, throttle, u2, events>>
    PROVE  Invariant'
<1>1. Changed(j, w)
  BY DEF Changed, Invariant, TypeOK
<1>2. Tapping(w) <=> Tapping(job[j])
  BY DEF Tapping
<1>3. \A d \in GroupDevice : ~job[j].task[d].locked
  BY Unlocked
<1>4. Tapping(w) => inflight
  BY <1>2 DEF Invariant, FlagUp
<1>5. /\ touch' \in BOOLEAN /\ recent' \in BOOLEAN /\ inflight' \in BOOLEAN
      /\ inflight' = inflight /\ events' \in 0..MaxEvents /\ UNCHANGED <<groupState, u2>>
  BY DEF Invariant, TypeOK, throttle
<1> QED
  BY <1>1, <1>2, <1>3, <1>4, <1>5, JobInv

LEMMA StartTapInv ==
    ASSUME Invariant, NEW j \in Job, StartTap(j)
    PROVE  Invariant'
<1> DEFINE t == [NoTask EXCEPT !.at = "look"]
           w == [job[j] EXCEPT !.phase = "build", !.task[Master] = t]
<1>1. t \in Task /\ t.at = "look" /\ ~t.locked
  BY DEF NoTask, Task, Place
<1>2. Master \in GroupDevice /\ job[j] \in Work /\ job[j].task \in [GroupDevice -> Task]
  BY DEF GroupDevice, Invariant, TypeOK, Work
<1>3. job' = [job EXCEPT ![j] = w] /\ job[j].phase = "start"
  BY DEF StartTap
<1> HIDE DEF t
<1>4. /\ w \in Work /\ w.kind = job[j].kind /\ w.phase = "build"
      /\ w.task = [job[j].task EXCEPT ![Master] = t]
  BY <1>1, <1>2 DEF Work
<1> HIDE DEF w
<1>5. \A e \in GroupDevice : w.task[e] = (IF e = Master THEN t ELSE job[j].task[e])
  BY <1>2, <1>4
<1>6. \A e \in GroupDevice : ~job[j].task[e].locked /\ job[j].task[e].at = "none"
  BY <1>3 DEF Invariant, Works, WorkOK
<1>7. WorkOK(w) /\ \A e \in GroupDevice : ~w.task[e].locked /\ w.task[e].at # "rpc"
  BY <1>1, <1>4, <1>5, <1>6 DEF WorkOK
<1> QED
  BY <1>3, <1>4, <1>7, OnwardInv DEF StartTap

LEMMA BegunIs ==
    ASSUME NEW j \in Job
    PROVE  /\ Begun(j) \in [GroupDevice -> Task]
           /\ \A d \in GroupDevice : Begun(j)[d].at \in {"check", "none"} /\ ~Begun(j)[d].locked
BY DEF Begun, NoTask, Task, Place

LEMMA BuiltInv ==
    ASSUME Invariant, NEW j \in Job, Built(j)
    PROVE  Invariant'
<1>1. PICK found \in BOOLEAN :
        job' = [job EXCEPT ![j].phase = "drive", ![j].semantic = found, ![j].task = Begun(j)]
  BY DEF Built
<1> DEFINE w == [job[j] EXCEPT !.phase = "drive", !.semantic = found, !.task = Begun(j)]
<1>2. job' = [job EXCEPT ![j] = w] /\ job[j].phase = "build" /\ job[j] \in Work
  BY <1>1 DEF Built, Invariant, TypeOK
<1>3. w \in Work /\ w.kind = job[j].kind /\ w.phase = "drive" /\ w.task = Begun(j)
  BY <1>2, BegunIs DEF Work
<1> HIDE DEF w
<1>4. WorkOK(w) /\ \A e \in GroupDevice : ~w.task[e].locked /\ w.task[e].at # "rpc"
  BY <1>3, BegunIs DEF WorkOK
<1> QED
  BY <1>2, <1>3, <1>4, OnwardInv DEF Built

LEMMA StartOtherInv ==
    ASSUME Invariant, NEW j \in Job, StartOther(j)
    PROVE  Invariant'
<1> DEFINE w == [job[j] EXCEPT !.phase = "drive", !.task = Begun(j)]
<1>1. job' = [job EXCEPT ![j] = w] /\ job[j].phase = "start" /\ job[j] \in Work
  BY DEF StartOther, Invariant, TypeOK
<1>2. w \in Work /\ w.kind = job[j].kind /\ w.phase = "drive" /\ w.task = Begun(j)
  BY <1>1, BegunIs DEF Work
<1> HIDE DEF w
<1>3. WorkOK(w) /\ \A e \in GroupDevice : ~w.task[e].locked /\ w.task[e].at # "rpc"
  BY <1>2, BegunIs DEF WorkOK
<1> QED
  BY <1>1, <1>2, <1>3, OnwardInv DEF StartOther

LEMMA JobStepInv ==
    ASSUME Invariant, NEW j \in Job, JobStep(j)
    PROVE  Invariant'
<1>1. CASE StartGone(j)
  <2>1. job[j].phase = "start" /\ \A d \in GroupDevice : ~job[j].task[d].locked
    BY <1>1, Unlocked DEF StartGone
  <2> QED
    BY <1>1, <2>1, OverInv DEF StartGone
<1>2. CASE Ends(j)
  <2>1. job[j].phase = "drive" /\ \A d \in GroupDevice : ~job[j].task[d].locked
    BY <1>2, Unlocked DEF Ends
  <2> QED
    BY <1>2, <2>1, OverInv DEF Ends
<1> QED
  BY <1>1, <1>2, StartTapInv, BuiltInv, StartOtherInv DEF JobStep

-----------------------------------------------------------------------------
(* A task.                                                                   *)

LEMMA TaskFacts ==
    ASSUME Invariant, NEW j \in Job, NEW d \in GroupDevice
    PROVE  /\ job[j].task[d] \in Task
           /\ job[j].task[d].locked =>
                 job[j].task[d].at \in {"look", "connect", "rpc"} /\ job[j].phase = "drive"
           /\ job[j].task[d].at \in {"check", "owner", "want", "coord"} => job[j].phase = "drive"
           /\ job[j].task[d].locked <=> lock[d] = j
           /\ lock \in [GroupDevice -> Job \cup {NoJob}]
           /\ pool \in [GroupDevice -> Nat] /\ made \in Nat
           /\ j # NoJob
BY DispatchAssumption DEF Invariant, TypeOK, Works, WorkOK, LockOK, Work

\* A task goes on with a connection, or inside the lock.
Calling(t, conn) == [t EXCEPT !.at = "rpc", !.conn = conn]
Inside(t) == [t EXCEPT !.at = "look", !.locked = TRUE]

LEMMA TaskSet ==
    ASSUME NEW t \in Task, NEW conn \in Nat
    PROVE  /\ Calling(t, conn) \in Task /\ Calling(t, conn).at = "rpc"
           /\ Calling(t, conn).conn = conn /\ Calling(t, conn).locked = t.locked
           /\ Inside(t) \in Task /\ Inside(t).at = "look" /\ Inside(t).locked = TRUE
<1>1. "rpc" \in Place /\ "look" \in Place
  BY DEF Place
<1>2. /\ Calling(t, conn) \in Task /\ Calling(t, conn).at = "rpc"
      /\ Calling(t, conn).conn = conn /\ Calling(t, conn).locked = t.locked
  BY <1>1 DEF Calling, Task
<1>3. Inside(t) \in Task /\ Inside(t).at = "look" /\ Inside(t).locked = TRUE
  BY <1>1 DEF Inside, Task
<1> QED
  BY <1>2, <1>3

\* A task goes on without the lock and the pool.
LEMMA WalkInv ==
    ASSUME Invariant, NEW j \in Job, NEW d \in GroupDevice, NEW place \in Place,
           Goto(j, d, place), job[j].task[d].at # "none", ~job[j].task[d].locked,
           place # "rpc",
           place \in {"check", "owner", "want", "coord"} => job[j].phase = "drive",
           UNCHANGED <<groupState, throttle, u2, events>>
    PROVE  Invariant'
<1> DEFINE t == [job[j].task[d] EXCEPT !.at = place]
<1>1. t \in Task /\ t.at = place /\ ~t.locked /\ Become(j, d, t)
  BY TaskFacts DEF Task, Goto
<1> HIDE DEF t
<1> QED
  BY <1>1, TaskFacts, TaskInv DEF u2

LEMMA EnterInv ==
    ASSUME Invariant, NEW j \in Job, NEW d \in GroupDevice, Enter(j, d)
    PROVE  Invariant'
<1> DEFINE t == Inside(job[j].task[d])
<1>1. /\ t \in Task /\ t.at = "look" /\ t.locked /\ Become(j, d, t)
  <2>1. job[j].task[d] \in Task
    BY TaskFacts
  <2>2. Become(j, d, t)
    BY DEF Enter, Inside
  <2> QED
    BY <2>1, <2>2, TaskSet
<1>2. job[j].task[d].at = "want" /\ lock[d] = NoJob /\ lock' = [lock EXCEPT ![d] = j]
  BY DEF Enter, At, Lockable
<1> HIDE DEF t
<1>3. /\ lock' \in [GroupDevice -> Job \cup {NoJob}] /\ lock'[d] = j
      /\ \A e \in GroupDevice : e # d => lock'[e] = lock[e]
  BY <1>2, TaskFacts
<1>4. \A i \in Job : i # j => (lock'[d] = i <=> lock[d] = i)
  BY <1>2, <1>3, DispatchAssumption
<1> QED
  BY <1>1, <1>2, <1>3, <1>4, TaskFacts, TaskInv DEF Enter

LEMMA LookInv ==
    ASSUME Invariant, NEW j \in Job, NEW d \in GroupDevice, Look(j, d)
    PROVE  Invariant'
<1>1. job[j].task[d].at = "look" /\ UNCHANGED <<groupState, throttle, u2, events>>
  BY DEF Look, At
<1>2. PICK t \in Task : /\ Become(j, d, t) /\ t.locked = job[j].task[d].locked
                        /\ t.at \in {"connect", "rpc"}
                        /\ t.at = "rpc" => pool[d] # 0 /\ t.conn = pool[d]
  <2>1. CASE pool[d] = 0
    <3> DEFINE t == [job[j].task[d] EXCEPT !.at = "connect"]
    <3>1. t \in Task /\ t.at = "connect" /\ t.locked = job[j].task[d].locked
      BY TaskFacts DEF Task, Place
    <3>2. Become(j, d, t)
      BY <2>1 DEF Look
    <3> QED
      BY <3>1, <3>2
  <2>2. CASE pool[d] # 0
    <3>1. PICK conn \in Nat : conn = pool[d]
      BY TaskFacts
    <3> DEFINE t == Calling(job[j].task[d], conn)
    <3>2. t \in Task /\ t.at = "rpc" /\ t.locked = job[j].task[d].locked /\ t.conn = conn
      <4>1. job[j].task[d] \in Task
        BY TaskFacts
      <4> QED
        BY <3>1, <4>1, TaskSet
    <3>3. Become(j, d, t)
      BY <2>2, <3>1 DEF Look, Calling
    <3> QED
      BY <2>2, <3>1, <3>2, <3>3
  <2> QED
    BY <2>1, <2>2
<1> QED
  BY <1>1, <1>2, TaskFacts, TaskInv DEF u2

LEMMA ConnectInv ==
    ASSUME Invariant, NEW j \in Job, NEW d \in GroupDevice, Connect(j, d)
    PROVE  Invariant'
<1>1. PICK conn \in Nat : conn = Kept(d) /\ conn # 0 /\ (pool[d] # 0 => conn = pool[d])
  BY TaskFacts DEF Kept
<1> DEFINE t == Calling(job[j].task[d], conn)
<1>2. /\ job[j].task[d].at = "connect" /\ made' = made + 1
      /\ pool' = [pool EXCEPT ![d] = conn] /\ Become(j, d, t)
  BY <1>1 DEF Connect, At, Calling
<1>3. t \in Task /\ t.at = "rpc" /\ t.locked = job[j].task[d].locked /\ t.conn = conn
  <2>1. job[j].task[d] \in Task
    BY TaskFacts
  <2>2. conn \in Nat
    BY <1>1
  <2> QED
    BY <2>1, <2>2, TaskSet
<1> HIDE DEF t
<1>4. /\ pool' \in [GroupDevice -> Nat] /\ made' \in Nat /\ pool'[d] = conn
      /\ \A e \in GroupDevice : pool[e] # 0 => pool'[e] = pool[e]
  BY <1>1, <1>2, TaskFacts
<1> QED
  BY <1>1, <1>2, <1>3, <1>4, TaskFacts, TaskInv DEF Connect

\* A task that leaves releases the lock if it is its own.
LEMMA LeaveInv ==
    ASSUME Invariant, NEW j \in Job, NEW d \in GroupDevice, NEW place \in {"coord", "done"},
           Leave(j, d, place), job[j].task[d].at \in {"connect", "rpc"},
           place = "coord" => job[j].task[d].locked,
           UNCHANGED <<groupState, throttle, pool, made, events>>
    PROVE  Invariant'
<1> DEFINE t == [NoTask EXCEPT !.at = place]
<1>1. t \in Task /\ t.at = place /\ ~t.locked /\ Become(j, d, t)
  BY DEF NoTask, Task, Place, Leave
<1> HIDE DEF t
<1>2. /\ lock' \in [GroupDevice -> Job \cup {NoJob}]
      /\ \A e \in GroupDevice : e # d => lock'[e] = lock[e]
      /\ lock'[d] = IF lock[d] = j THEN NoJob ELSE lock[d]
  BY TaskFacts DEF Leave
<1>3. /\ lock'[d] # j
      /\ \A i \in Job : i # j => (lock'[d] = i <=> lock[d] = i)
  BY <1>2, DispatchAssumption
<1> QED
  BY <1>1, <1>2, <1>3, TaskFacts, TaskInv

LEMMA TaskStepInv ==
    ASSUME Invariant, NEW j \in Job, NEW d \in GroupDevice, TaskStep(j, d)
    PROVE  Invariant'
<1> USE DEF At
<1>0. {"owner", "done", "want", "coord", "look"} \subseteq Place
  BY DEF Place
<1>1. CASE Check(j, d)
  <2>1. PICK place \in {"owner", "done"} : Goto(j, d, place)
    BY <1>1 DEF Check
  <2> QED
    BY <1>0, <1>1, <2>1, TaskFacts, WalkInv DEF Check
<1>2. CASE Owner(j, d)
  <2>1. PICK place \in {"want", "coord", "done"} : Goto(j, d, place)
    BY <1>2 DEF Owner
  <2> QED
    BY <1>0, <1>2, <2>1, TaskFacts, WalkInv DEF Owner
<1>3. CASE U2Fails(j, d)
  <2>1. PICK place \in {"coord", "done"} :
           Leave(j, d, place) /\ (place = "coord" => job[j].task[d].locked)
    BY <1>3 DEF U2Fails
  <2> QED
    BY <1>3, <2>1, LeaveInv DEF U2Fails
<1>4. CASE U2Succeeds(j, d)
  BY <1>4, LeaveInv DEF U2Succeeds
<1>5. CASE Direct(j, d) \/ Coordinate(j, d)
  BY <1>0, <1>5, TaskFacts, WalkInv DEF Direct, Coordinate
<1>6. CASE Capture(j, d)
  BY <1>0, <1>6, TaskFacts, WalkInv DEF Capture
<1> QED
  BY <1>1, <1>2, <1>3, <1>4, <1>5, <1>6, EnterInv, LookInv, ConnectInv DEF TaskStep

-----------------------------------------------------------------------------
(* The invariant is inductive.                                               *)

LEMMA InitInv == Init => Invariant
<1> SUFFICES ASSUME Init
             PROVE  Invariant
  OBVIOUS
<1>1. TypeOK
  <2>1. Idle \in Work /\ 0 \in 0..MaxEvents
    BY IdleIs, DispatchAssumption
  <2> QED
    BY <2>1 DEF Init, TypeOK
<1>2. FlagUp /\ OneTapping /\ Works
  BY IdleIs DEF Init, FlagUp, OneTapping, Works, Tapping
<1>3. LockOK /\ PoolOK
  BY IdleIs, DispatchAssumption DEF Init, LockOK, PoolOK, At, NoTask
<1> QED
  BY <1>1, <1>2, <1>3 DEF Invariant

LEMMA NextInv ==
    ASSUME Invariant, Next
    PROVE  Invariant'
<1>1. CASE Switched
  BY <1>1, QuietInv, Counts DEF Switched, Invariant, TypeOK, throttle
<1>2. CASE \E d \in Slave : Lost(d) \/ Left(d)
  <2>1. /\ UNCHANGED <<on, job, u2, throttle>> /\ events' \in 0..MaxEvents
        /\ members' \subseteq Slave /\ mine' \subseteq Slave
    BY <1>2, Counts DEF Lost, Left, Invariant, TypeOK
  <2> QED
    BY <2>1, QuietInv DEF Invariant, TypeOK, throttle
<1>3. CASE TouchDown \/ TouchDropped \/ IntervalPasses
  BY <1>3, QuietInv
     DEF TouchDown, TouchDropped, IntervalPasses, Invariant, TypeOK, groupState
<1>4. ASSUME NEW j \in Job, TouchDrag(j)
      PROVE  Invariant'
  BY <1>4, OtherSpawnInv DEF TouchDrag
<1>5. ASSUME NEW j \in Job, NEW kind \in {"text", "direct"}, Mirror(j, kind)
      PROVE  Invariant'
  <2>1. touch' \in BOOLEAN /\ UNCHANGED <<groupState, inflight, recent, u2>>
    BY <1>5 DEF Mirror, throttle, Invariant, TypeOK
  <2> QED
    BY <1>5, <2>1, OtherSpawnInv DEF Mirror
<1> QED
  BY <1>1, <1>2, <1>3, <1>4, <1>5, TouchTapInv, InspectInv, TaskStepInv, JobStepInv DEF Next

LEMMA StutterInv ==
    ASSUME Invariant, UNCHANGED vars
    PROVE  Invariant'
BY QuietInv DEF vars, Invariant, TypeOK, u2

LEMMA Inductive == Spec => []Invariant
<1>1. Invariant /\ [Next]_vars => Invariant'
  BY NextInv, StutterInv
<1> QED
  BY InitInv, <1>1, PTL DEF Spec

-----------------------------------------------------------------------------
(* The theorems.                                                             *)

\* The group, the throttle, the workers with their tasks, the locks and the pool
\* keep their types, however many workers run.
THEOREM TypeCorrect == Spec => []TypeOK
<1>1. Invariant => TypeOK
  BY DEF Invariant
<1> QED
  BY Inductive, <1>1, PTL

\* sync_dispatcher.py and u2_pool.py, for every number of slaves and workers: one
\* tap of a master at a time (_allow_semantic_tap), one locked action on a device
\* at a time (device_lock), and one connection of a device (u2_pool.get).
THEOREM WorkersDoExclude == Spec => []WorkersExclude
<1>1. Invariant => OneTapWorker
  BY DEF Invariant, OneTapping, Tapping, OneTapWorker, Free
<1>2. Invariant => ActionsSerialised
  BY DEF Invariant, LockOK, ActionsSerialised
<1>3. Invariant => OneConnection
  BY DEF Invariant, PoolOK, OneConnection
<1>4. Invariant => WorkersExclude
  BY <1>1, <1>2, <1>3 DEF WorkersExclude
<1> QED
  BY Inductive, <1>4, PTL

\* Whoever holds the lock of a device is in a u2 call on it, and the worker is at
\* work: no error path of a click or a text, and no end of a worker, leaves a lock
\* behind that nobody will release.
LockHeldInside ==
    \A j \in Job, d \in GroupDevice :
        lock[d] = j => /\ job[j].phase = "drive"
                       /\ job[j].task[d].at \in {"look", "connect", "rpc"}

\* u2_executor.py: the device lock is not leaked, whatever fails inside it.
THEOREM LocksComeBack == Spec => []LockHeldInside
<1>1. Invariant => LockHeldInside
  BY DEF Invariant, LockOK, Works, WorkOK, LockHeldInside
<1> QED
  BY Inductive, <1>1, PTL
=============================================================================
