---------------------------- MODULE TableProofs ----------------------------
(***************************************************************************)
(* The overlay of Table implements Transaction, and the committed database *)
(* has no dangling reference, for all tables, keys, rows and bounds; and   *)
(* the three-way merge of a table is exact, for all fields and layouts;    *)
(* and a scan returns the candidate rows, for all maps and key ranges.     *)
(*                                                                         *)
(* TableInv is the inductive invariant.  Beside the two properties it says *)
(* that no savepoint is newer than the current activation: the identifier  *)
(* of a new activation is then one that no savepoint carries, so savepoints*)
(* taken over another committed database are recognised as foreign; and    *)
(* that a root run by activate is never committed from inside.             *)
(***************************************************************************)
EXTENDS MCTable, SequenceTheorems, WellFoundedInduction, TLAPS

-----------------------------------------------------------------------------
(* The scan of a candidate.                                                *)

(* Every set of naturals has a least element: the library's fact about the *)
(* order of Nat, for sets, where it needs no operator as a parameter.      *)
LEMMA LeastNat ==
  ASSUME NEW S, S \subseteq Nat, S # {}
  PROVE  \E n \in S : \A m \in S : n <= m
<1> DEFINE R == OpToRel(<, Nat)
<1>1. IsWellFoundedOn(R, Nat)
  BY NatLessThanWellFounded
<1>2. PICK n \in S : \A m \in S : <<m, n>> \notin R
  <2> HIDE DEF R
  <2> QED BY <1>1, WFMin
<1>3. \A m \in S : m < n => <<m, n>> \in R
  BY DEF OpToRel
<1> HIDE DEF R
<1>4. \A m \in S : ~(m < n)
  BY <1>2, <1>3
<1> QED BY <1>4

(* Induction over Nat, with a set in place of a predicate.                 *)
LEMMA NatSetInduction ==
  ASSUME NEW S, 0 \in S, \A n \in Nat : n \in S => n + 1 \in S
  PROVE  Nat \subseteq S
<1>1. SUFFICES ASSUME Nat \ S # {} PROVE FALSE
  OBVIOUS
<1>2. PICK n \in Nat \ S : \A m \in Nat \ S : n <= m
  BY <1>1, LeastNat
<1>3. n # 0 /\ n - 1 \in Nat
  BY <1>2
<1>4. n - 1 \in S
  BY <1>2, <1>3
<1>5. (n - 1) + 1 = n
  BY <1>2
<1> QED BY <1>2, <1>3, <1>4, <1>5

(* The entries that BTreeMap::range returns.                               *)

Held(map, keys, k) == k \in keys /\ map[k] # Absent

(* The body of the recursive function of EntriesFrom, at k.                *)
EntriesBody(map, keys, from, k) ==
  IF k = MaxKey + 1 THEN <<>>
  ELSE IF k \in keys /\ map[k] # Absent THEN <<<<k, map[k]>>>> \o from[k + 1]
  ELSE from[k + 1]

(* Some function satisfies the recursion of EntriesFrom: it is built from  *)
(* the last key down, one key at a time.                                   *)
LEMMA FromExists ==
  ASSUME NEW map, NEW keys
  PROVE  \E f : f = [k \in 1..(MaxKey + 1) |-> EntriesBody(map, keys, f, k)]
<1> DEFINE N == MaxKey + 1
           Body(g, k) == EntriesBody(map, keys, g, k)
           Ok(d) == \E f : f = [k \in (N - d)..N |-> Body(f, k)]
           S == {d \in Nat : d <= MaxKey => Ok(d)}
<1>1. 0 \in S
  <2> DEFINE f == [k \in N..N |-> <<>>]
  <2>1. f = [k \in (N - 0)..N |-> Body(f, k)]
    BY MaxKeyAssumption DEF EntriesBody
  <2> QED BY <2>1
<1>2. ASSUME NEW d \in Nat, d \in S PROVE d + 1 \in S
  <2>1. SUFFICES ASSUME d + 1 <= MaxKey PROVE Ok(d + 1)
    OBVIOUS
  <2>2. PICK f : f = [k \in (N - d)..N |-> Body(f, k)]
    BY <1>2, <2>1, MaxKeyAssumption
  <2> DEFINE j == N - (d + 1)
             g == [k \in j..N |-> IF k = j THEN Body(f, k) ELSE f[k]]
  <2>3. ASSUME NEW k \in j..N PROVE g[k] = Body(g, k)
    <3>1. k # N => g[k + 1] = f[k + 1]
      BY <2>1, <2>3, MaxKeyAssumption
    <3>2. ASSUME k # j PROVE g[k] = Body(f, k)
      <4>1. k \in (N - d)..N /\ g[k] = f[k]
        BY <2>1, <2>3, <3>2, MaxKeyAssumption
      <4>2. f[k] = [i \in (N - d)..N |-> Body(f, i)][k]
        BY <2>2
      <4> HIDE DEF Body, g
      <4> QED BY <4>1, <4>2
    <3>3. g[k] = Body(f, k)
      BY <2>3, <3>2
    <3> QED BY <3>1, <3>3 DEF EntriesBody
  <2>4. g = [k \in j..N |-> Body(g, k)]
    <3> DEFINE h == [k \in j..N |-> Body(g, k)]
    <3>1. \A k \in j..N : g[k] = h[k]
      BY <2>3
    <3> HIDE DEF Body
    <3> QED BY <3>1
  <2> QED BY <2>4
<1>3. MaxKey \in S
  <2> HIDE DEF S
  <2> QED BY <1>1, <1>2, NatSetInduction, MaxKeyAssumption
<1>4. N - MaxKey = 1
  BY MaxKeyAssumption
<1>5. Ok(MaxKey)
  BY <1>3, MaxKeyAssumption
<1> QED BY <1>4, <1>5

(* So the function that EntriesFrom chooses satisfies it.                  *)
LEMMA FromDef ==
  ASSUME NEW map, NEW keys
  PROVE  EntriesFrom(map, keys) =
           [k \in 1..(MaxKey + 1) |-> EntriesBody(map, keys, EntriesFrom(map, keys), k)]
<1> DEFINE Is(f) == f = [k \in 1..(MaxKey + 1) |-> EntriesBody(map, keys, f, k)]
<1>1. \E f : Is(f)
  BY FromExists
<1>2. EntriesFrom(map, keys) = CHOOSE f : Is(f)
  BY Zenon DEF EntriesFrom, EntriesBody
<1>3. Is(CHOOSE f : Is(f))
  <2> HIDE DEF Is
  <2> QED BY <1>1, Zenon
<1>4. Is(EntriesFrom(map, keys))
  <2> HIDE DEF Is
  <2> QED BY <1>2, <1>3
<1> QED BY <1>4

(* The entries of a map at the keys from k on.                             *)
From(map, keys, k) == EntriesFrom(map, keys)[k]

(* They are the entry of k, if the map holds one, and those after it.      *)
LEMMA FromUnfolds ==
  ASSUME NEW map, NEW keys
  PROVE  /\ From(map, keys, MaxKey + 1) = <<>>
         /\ \A k \in ScanKeys :
              From(map, keys, k) =
                IF Held(map, keys, k) THEN <<<<k, map[k]>>>> \o From(map, keys, k + 1)
                ELSE From(map, keys, k + 1)
<1> DEFINE f == EntriesFrom(map, keys)
<1>1. f = [k \in 1..(MaxKey + 1) |-> EntriesBody(map, keys, f, k)]
  BY FromDef
<1>2. \A k \in 1..(MaxKey + 1) : f[k] = EntriesBody(map, keys, f, k)
  <2> HIDE DEF f
  <2> QED BY <1>1
<1> HIDE DEF f
<1>3. f[MaxKey + 1] = <<>>
  <2>1. MaxKey + 1 \in 1..(MaxKey + 1)
    BY MaxKeyAssumption
  <2> QED BY <1>2, <2>1 DEF EntriesBody
<1>4. ASSUME NEW k \in ScanKeys
      PROVE  f[k] = IF Held(map, keys, k) THEN <<<<k, map[k]>>>> \o f[k + 1] ELSE f[k + 1]
  <2>1. k \in 1..(MaxKey + 1) /\ k # MaxKey + 1
    BY MaxKeyAssumption DEF ScanKeys
  <2> QED BY <1>2, <2>1 DEF Held, EntriesBody
<1> QED BY <1>3, <1>4 DEF f, From

(* Induction over the keys, from the last one down.                        *)
LEMMA KeyInduction ==
  ASSUME NEW S, MaxKey + 1 \in S, \A k \in ScanKeys : k + 1 \in S => k \in S
  PROVE  1..(MaxKey + 1) \subseteq S
<1> DEFINE T == {d \in Nat : d <= MaxKey => (MaxKey + 1) - d \in S}
<1>1. 0 \in T
  BY MaxKeyAssumption
<1>2. ASSUME NEW d \in Nat, d \in T PROVE d + 1 \in T
  <2>1. SUFFICES ASSUME d + 1 <= MaxKey PROVE (MaxKey + 1) - (d + 1) \in S
    OBVIOUS
  <2>2. (MaxKey + 1) - d \in S
    BY <1>2, <2>1, MaxKeyAssumption
  <2> DEFINE k == (MaxKey + 1) - (d + 1)
  <2>3. k \in ScanKeys /\ k + 1 = (MaxKey + 1) - d
    BY <2>1, MaxKeyAssumption DEF ScanKeys
  <2> HIDE DEF k
  <2>4. k \in S
    BY <2>2, <2>3
  <2> QED BY <2>4 DEF k
<1>3. Nat \subseteq T
  <2> HIDE DEF T
  <2> QED BY <1>1, <1>2, NatSetInduction
<1>4. ASSUME NEW k \in 1..(MaxKey + 1) PROVE k \in S
  <2> DEFINE d == (MaxKey + 1) - k
  <2>1. d \in Nat /\ d <= MaxKey /\ (MaxKey + 1) - d = k
    BY MaxKeyAssumption
  <2> HIDE DEF d
  <2>2. d \in T
    BY <1>3, <2>1
  <2> QED BY <2>1, <2>2
<1> QED BY <1>4

(* The remaining entries are a sequence of pairs, and their keys are not   *)
(* below k.                                                                *)
LEMMA FromSeq ==
  ASSUME NEW map, NEW keys, NEW E, \A k \in ScanKeys : <<k, map[k]>> \in E
  PROVE  \A k \in 1..(MaxKey + 1) :
           /\ From(map, keys, k) \in Seq(E)
           /\ From(map, keys, k) # <<>> =>
                From(map, keys, k)[1][1] >= k /\ From(map, keys, k)[1][1] \in ScanKeys
<1> DEFINE Ok(k) == /\ From(map, keys, k) \in Seq(E)
                    /\ From(map, keys, k) # <<>> =>
                         From(map, keys, k)[1][1] >= k /\ From(map, keys, k)[1][1] \in ScanKeys
           S == {k \in 1..(MaxKey + 1) : Ok(k)}
<1>1. MaxKey + 1 \in S
  <2>1. MaxKey + 1 \in 1..(MaxKey + 1)
    BY MaxKeyAssumption
  <2>2. From(map, keys, MaxKey + 1) = <<>>
    BY FromUnfolds
  <2>3. From(map, keys, MaxKey + 1) \in Seq(E)
    <3>1. <<>> \in Seq(E)
      OBVIOUS
    <3> QED BY <2>2, <3>1, Zenon
  <2>4. Ok(MaxKey + 1)
    BY <2>2, <2>3, Zenon
  <2> HIDE DEF Ok
  <2> QED BY <2>1, <2>4
<1>2. ASSUME NEW k \in ScanKeys, k + 1 \in S PROVE k \in S
  <2>0. k \in 1..(MaxKey + 1) /\ k \in Nat
    BY MaxKeyAssumption DEF ScanKeys
  <2> DEFINE rest == From(map, keys, k + 1)
             e == <<k, map[k]>>
  <2>1. rest \in Seq(E) /\ (rest # <<>> => rest[1][1] >= k + 1 /\ rest[1][1] \in ScanKeys)
    BY <1>2
  <2>2. e \in E /\ e[1] = k
    OBVIOUS
  <2>3. From(map, keys, k) = IF Held(map, keys, k) THEN <<e>> \o rest ELSE rest
    BY FromUnfolds
  <2> HIDE DEF rest, e
  <2>4. <<e>> \o rest \in Seq(E) /\ (<<e>> \o rest)[1] = e
    BY <2>1, <2>2
  <2>5. CASE Held(map, keys, k)
    <3> DEFINE whole == <<e>> \o rest
    <3>1. From(map, keys, k) = whole
      BY <2>3, <2>5
    <3>2. whole \in Seq(E) /\ whole[1][1] = k
      BY <2>2, <2>4
    <3> HIDE DEF whole
    <3>3. Ok(k)
      BY <2>0, <3>1, <3>2
    <3> HIDE DEF Ok
    <3> QED BY <2>0, <3>3
  <2>6. CASE ~Held(map, keys, k)
    <3>1. rest # <<>> => rest[1][1] >= k
      BY <2>0, <2>1 DEF ScanKeys
    <3> QED BY <2>0, <2>1, <2>3, <2>6, <3>1
  <2> QED BY <2>5, <2>6
<1> HIDE DEF Ok
<1>3. 1..(MaxKey + 1) \subseteq S
  <2> HIDE DEF S
  <2> QED BY <1>1, <1>2, KeyInduction
<1>4. \A k \in 1..(MaxKey + 1) : Ok(k)
  BY <1>3
<1> QED BY <1>4 DEF Ok

(* What candidate_rows makes of a key.                                     *)
LEMMA CandidateHeld ==
  ASSUME NEW base, NEW staged, NEW k \in ScanKeys
  PROVE  /\ staged[k] = Absent => CandidateRows(base, staged)[k] = base[k]
         /\ staged[k] # Absent /\ staged[k] = Deleted => CandidateRows(base, staged)[k] = Absent
         /\ staged[k] # Absent /\ staged[k] # Deleted => CandidateRows(base, staged)[k] = staged[k]
<1> DEFINE Row(i) == CASE staged[i] = Absent -> base[i]
                       [] staged[i] = Deleted -> Absent
                       [] OTHER -> staged[i]
<1>1. CandidateRows(base, staged) = [i \in ScanKeys |-> Row(i)]
  BY Zenon DEF CandidateRows
<1>2. CandidateRows(base, staged)[k] = Row(k)
  <2> HIDE DEF Row
  <2> QED BY <1>1
<1> QED BY <1>2, DeletedAssumption

-----------------------------------------------------------------------------
(* A scan of the candidate, turn by turn.                                  *)

(* The entries a scan can meet, and those from k on in each of its maps.   *)
Entries(s) == {<<k, s.base[k]>> : k \in ScanKeys} \cup {<<k, s.staged[k]>> : k \in ScanKeys}
                \cup {<<k, CandidateRows(s.base, s.staged)[k]>> : k \in ScanKeys}
BaseFrom(s, k) == From(s.base, s.range, k)
StagedFrom(s, k) == From(s.staged, s.range, k)
CandidatesFrom(s, k) == From(CandidateRows(s.base, s.staged), s.range, k)

(* Those of the two iterators start with a key that is not below k.        *)
LEMMA EntriesTyped ==
  ASSUME NEW s, NEW k \in 1..(MaxKey + 1)
  PROVE  /\ BaseFrom(s, k) \in Seq(Entries(s)) /\ StagedFrom(s, k) \in Seq(Entries(s))
         /\ CandidatesFrom(s, k) \in Seq(Entries(s))
         /\ BaseFrom(s, k) # <<>> => BaseFrom(s, k)[1][1] >= k /\ BaseFrom(s, k)[1][1] \in ScanKeys
         /\ StagedFrom(s, k) # <<>> => StagedFrom(s, k)[1][1] >= k /\ StagedFrom(s, k)[1][1] \in ScanKeys
<1>1. \A i \in ScanKeys : <<i, s.base[i]>> \in Entries(s)
  BY DEF Entries
<1>2. \A i \in ScanKeys : <<i, s.staged[i]>> \in Entries(s)
  BY DEF Entries
<1>3. \A i \in ScanKeys : <<i, CandidateRows(s.base, s.staged)[i]>> \in Entries(s)
  BY DEF Entries
<1>4. BaseFrom(s, k) \in Seq(Entries(s))
      /\ (BaseFrom(s, k) # <<>> => BaseFrom(s, k)[1][1] >= k /\ BaseFrom(s, k)[1][1] \in ScanKeys)
  BY <1>1, FromSeq DEF BaseFrom
<1>5. StagedFrom(s, k) \in Seq(Entries(s))
      /\ (StagedFrom(s, k) # <<>> => StagedFrom(s, k)[1][1] >= k /\ StagedFrom(s, k)[1][1] \in ScanKeys)
  BY <1>2, FromSeq DEF StagedFrom
<1>6. CandidatesFrom(s, k) \in Seq(Entries(s))
  BY <1>3, FromSeq DEF CandidatesFrom
<1> QED BY <1>4, <1>5, <1>6

(* An iterator, by its parts.                                              *)
It(c, o, out) == [committed |-> c, overlay |-> o, emitted |-> out]

(* The invariant of the loop: both iterators are at k, and what has been   *)
(* returned is what the candidate holds below k.                           *)
At(s, it, k) ==
  \E out \in Seq(Entries(s)) :
    /\ out \o CandidatesFrom(s, k) = CandidatesFrom(s, 1)
    /\ it = It(BaseFrom(s, k), StagedFrom(s, k), out)

(* The loop stops at the keys that one of the maps holds, and at the end.  *)
Stop(s, k) == k = MaxKey + 1 \/ Held(s.base, s.range, k) \/ Held(s.staged, s.range, k)

(* A key that neither map holds is in none of the three.                   *)
LEMMA NextStop ==
  ASSUME NEW s
  PROVE  \A k \in 1..(MaxKey + 1) : \E j \in k..(MaxKey + 1) :
           /\ Stop(s, j)
           /\ BaseFrom(s, k) = BaseFrom(s, j) /\ StagedFrom(s, k) = StagedFrom(s, j)
           /\ CandidatesFrom(s, k) = CandidatesFrom(s, j)
<1> DEFINE To(k, j) == /\ Stop(s, j)
                       /\ BaseFrom(s, k) = BaseFrom(s, j) /\ StagedFrom(s, k) = StagedFrom(s, j)
                       /\ CandidatesFrom(s, k) = CandidatesFrom(s, j)
           Ok(k) == \E j \in k..(MaxKey + 1) : To(k, j)
           S == {k \in 1..(MaxKey + 1) : Ok(k)}
<1>1. ASSUME NEW k \in 1..(MaxKey + 1), Stop(s, k) PROVE k \in S
  <2>1. k \in k..(MaxKey + 1)
    BY MaxKeyAssumption
  <2>2. To(k, k)
    BY <1>1
  <2> HIDE DEF To
  <2> QED BY <2>1, <2>2
<1>2. MaxKey + 1 \in S
  <2>1. MaxKey + 1 \in 1..(MaxKey + 1)
    BY MaxKeyAssumption
  <2> HIDE DEF S
  <2> QED BY <1>1, <2>1 DEF Stop
<1>3. ASSUME NEW k \in ScanKeys, k + 1 \in S PROVE k \in S
  <2>0. k \in 1..(MaxKey + 1) /\ k \in Nat
    BY MaxKeyAssumption DEF ScanKeys
  <2>1. CASE Stop(s, k)
    <3> HIDE DEF S
    <3> QED BY <1>1, <2>0, <2>1
  <2>2. CASE ~Stop(s, k)
    <3>1. PICK j \in (k + 1)..(MaxKey + 1) : To(k + 1, j)
      <4> HIDE DEF To
      <4> QED BY <1>3
    <3>2. ~Held(CandidateRows(s.base, s.staged), s.range, k)
      BY <2>2, CandidateHeld DEF Stop, Held
    <3>3. /\ BaseFrom(s, k) = BaseFrom(s, k + 1) /\ StagedFrom(s, k) = StagedFrom(s, k + 1)
          /\ CandidatesFrom(s, k) = CandidatesFrom(s, k + 1)
      BY <2>2, <3>2, FromUnfolds DEF Stop, BaseFrom, StagedFrom, CandidatesFrom
    <3>4. To(k, j)
      BY <3>1, <3>3
    <3>5. j \in k..(MaxKey + 1)
      BY <2>0, MaxKeyAssumption
    <3> HIDE DEF To
    <3> QED BY <2>0, <3>4, <3>5
  <2> QED BY <2>1, <2>2
<1>4. 1..(MaxKey + 1) \subseteq S
  <2> HIDE DEF S
  <2> QED BY <1>2, <1>3, KeyInduction
<1> HIDE DEF To
<1>5. \A k \in 1..(MaxKey + 1) : Ok(k)
  BY <1>4
<1> QED BY <1>5 DEF To

(* Two iterators with the same parts are the same.                         *)
LEMMA SameIterator ==
  ASSUME NEW C, NEW O, NEW M, NEW it \in [committed : C, overlay : O, emitted : M],
         NEW jt \in [committed : C, overlay : O, emitted : M],
         it.committed = jt.committed, it.overlay = jt.overlay, it.emitted = jt.emitted
  PROVE  it = jt
OBVIOUS

(* The branches of Turn, each under the condition that selects it.         *)
Ties(c, o) == c # <<>> /\ o # <<>> /\ c[1][1] = o[1][1]

LEMMA TurnCases ==
  ASSUME NEW c, NEW o, NEW out
  PROVE  /\ ComesFirst(c, o) /\ ~ComesFirst(o, c) /\ ~Ties(c, o) =>
              Turn(It(c, o, out)) = It(Tail(c), o, Append(out, c[1]))
         /\ ~ComesFirst(c, o) /\ ComesFirst(o, c) /\ ~Ties(c, o) =>
              Turn(It(c, o, out)) = It(c, Tail(o), EmitStaged(out, o[1]))
         /\ ~ComesFirst(c, o) /\ ~ComesFirst(o, c) /\ Ties(c, o) =>
              Turn(It(c, o, out)) = It(Tail(c), Tail(o), EmitStaged(out, o[1]))
         /\ ~ComesFirst(c, o) /\ ~ComesFirst(o, c) /\ ~Ties(c, o) =>
              Turn(It(c, o, out)) = It(c, o, out)
<1> DEFINE it == It(c, o, out)
           x == Tail(c)
           y == Tail(o)
           z == Append(out, c[1])
           w == EmitStaged(out, o[1])
           ra == [it EXCEPT !.committed = x, !.emitted = z]
           rb == [it EXCEPT !.overlay = y, !.emitted = w]
           rc == [it EXCEPT !.committed = x, !.overlay = y, !.emitted = w]
<1>1. it.committed = c /\ it.overlay = o /\ it.emitted = out
  BY DEF It
<1> HIDE DEF it
<1>2. Turn(it) = CASE ComesFirst(c, o) -> ra [] ComesFirst(o, c) -> rb [] Ties(c, o) -> rc [] OTHER -> it
  BY ONLY <1>1 DEF Turn, Ties
<1> HIDE DEF x, y, z, w
<1> DEFINE C == {c, x}
           O == {o, y}
           M == {out, z, w}
           R == [committed : C, overlay : O, emitted : M]
<1>3. it \in R /\ c \in C /\ x \in C /\ o \in O /\ y \in O /\ z \in M /\ w \in M
  BY DEF It, it
<1> HIDE DEF C, O, M
<1>4. ra = It(x, o, z)
  <2> DEFINE t == It(x, o, z)
  <2>1. ra \in R /\ ra.committed = x /\ ra.overlay = o /\ ra.emitted = z
    BY <1>1, <1>3
  <2>2. t \in R /\ t.committed = x /\ t.overlay = o /\ t.emitted = z
    BY <1>3 DEF It
  <2> HIDE DEF t, ra
  <2>3. ra = t
    BY <2>1, <2>2, SameIterator
  <2> QED BY <2>3 DEF t
<1>5. rb = It(c, y, w)
  <2> DEFINE t == It(c, y, w)
  <2>1. rb \in R /\ rb.committed = c /\ rb.overlay = y /\ rb.emitted = w
    BY <1>1, <1>3
  <2>2. t \in R /\ t.committed = c /\ t.overlay = y /\ t.emitted = w
    BY <1>3 DEF It
  <2> HIDE DEF t, rb
  <2>3. rb = t
    BY <2>1, <2>2, SameIterator
  <2> QED BY <2>3 DEF t
<1>6. rc = It(x, y, w)
  <2> DEFINE t == It(x, y, w)
  <2>1. rc \in R /\ rc.committed = x /\ rc.overlay = y /\ rc.emitted = w
    BY <1>1, <1>3
  <2>2. t \in R /\ t.committed = x /\ t.overlay = y /\ t.emitted = w
    BY <1>3 DEF It
  <2> HIDE DEF t, rc
  <2>3. rc = t
    BY <2>1, <2>2, SameIterator
  <2> QED BY <2>3 DEF t
<1> HIDE DEF ra, rb, rc
<1>7. /\ ComesFirst(c, o) /\ ~ComesFirst(o, c) /\ ~Ties(c, o) => Turn(it) = ra
      /\ ~ComesFirst(c, o) /\ ComesFirst(o, c) /\ ~Ties(c, o) => Turn(it) = rb
      /\ ~ComesFirst(c, o) /\ ~ComesFirst(o, c) /\ Ties(c, o) => Turn(it) = rc
      /\ ~ComesFirst(c, o) /\ ~ComesFirst(o, c) /\ ~Ties(c, o) => Turn(it) = it
  BY ONLY <1>2
<1> QED BY <1>4, <1>5, <1>6, <1>7 DEF x, y, z, w, it

(* One turn passes the next key that either map holds: the committed row,  *)
(* the overlay row, or neither where the overlay deletes, is what the      *)
(* candidate holds there.                                                  *)
LEMMA TurnMoves ==
  ASSUME NEW s, NEW it, NEW k \in 1..(MaxKey + 1), At(s, it, k)
  PROVE  \E j \in 1..(MaxKey + 1) : At(s, Turn(it), j) /\ (j > k \/ j = MaxKey + 1)
<1> DEFINE E == Entries(s)
           rows == CandidateRows(s.base, s.staged)
<1>1. PICK out \in Seq(E) :
        /\ out \o CandidatesFrom(s, k) = CandidatesFrom(s, 1)
        /\ it = It(BaseFrom(s, k), StagedFrom(s, k), out)
  BY DEF At
<1>2. PICK i \in k..(MaxKey + 1) :
        /\ Stop(s, i)
        /\ BaseFrom(s, k) = BaseFrom(s, i) /\ StagedFrom(s, k) = StagedFrom(s, i)
        /\ CandidatesFrom(s, k) = CandidatesFrom(s, i)
  BY NextStop
<1>3. i \in 1..(MaxKey + 1) /\ i \in Nat /\ k \in Nat /\ i >= k
  BY MaxKeyAssumption
<1> DEFINE c == BaseFrom(s, i)
           o == StagedFrom(s, i)
<1>4. /\ it = It(c, o, out)
      /\ out \o CandidatesFrom(s, i) = CandidatesFrom(s, 1)
  BY <1>1, <1>2
<1>5. CASE i = MaxKey + 1
  <2>1. c = <<>> /\ o = <<>>
    BY <1>5, FromUnfolds DEF BaseFrom, StagedFrom
  <2>2. ~ComesFirst(c, o) /\ ~ComesFirst(o, c) /\ ~Ties(c, o)
    BY <2>1 DEF ComesFirst, Ties
  <2>3. Turn(it) = it
    BY <1>4, <2>1, <2>2, TurnCases
  <2>4. At(s, Turn(it), i)
    BY <1>4, <2>3 DEF At
  <2> QED BY <1>3, <1>5, <2>4
<1>6. ASSUME i # MaxKey + 1
      PROVE  At(s, Turn(it), i + 1) /\ i + 1 \in 1..(MaxKey + 1) /\ i + 1 > k
  <2>0. i \in ScanKeys /\ i + 1 \in 1..(MaxKey + 1) /\ i + 1 > k
    BY <1>3, <1>6, MaxKeyAssumption DEF ScanKeys
  <2> DEFINE cs == BaseFrom(s, i + 1)
             os == StagedFrom(s, i + 1)
             rs == CandidatesFrom(s, i + 1)
             b == <<i, s.base[i]>>
             g == <<i, s.staged[i]>>
             H == Held(s.base, s.range, i)
             G == Held(s.staged, s.range, i)
  <2>1. /\ cs \in Seq(E) /\ os \in Seq(E) /\ rs \in Seq(E)
        /\ cs # <<>> => cs[1][1] > i /\ cs[1][1] \in Nat
        /\ os # <<>> => os[1][1] > i /\ os[1][1] \in Nat
    <3>1. \A n \in ScanKeys : n >= i + 1 => n > i /\ n \in Nat
      BY <1>3 DEF ScanKeys
    <3> QED BY <2>0, <3>1, EntriesTyped
  <2>2. b \in E /\ g \in E /\ b[1] = i /\ g[1] = i /\ g[2] = s.staged[i]
    BY <2>0 DEF Entries
  <2>3. c = (IF H THEN <<b>> \o cs ELSE cs) /\ o = (IF G THEN <<g>> \o os ELSE os)
    BY <2>0, FromUnfolds DEF BaseFrom, StagedFrom
  <2>4. /\ CandidatesFrom(s, i) = IF Held(rows, s.range, i) THEN <<<<i, rows[i]>>>> \o rs ELSE rs
    BY <2>0, FromUnfolds DEF CandidatesFrom
  <2>5. /\ s.staged[i] = Absent => rows[i] = s.base[i]
        /\ s.staged[i] # Absent /\ s.staged[i] = Deleted => rows[i] = Absent
        /\ s.staged[i] # Absent /\ s.staged[i] # Deleted => rows[i] = s.staged[i]
    BY <2>0, CandidateHeld
  <2>6. /\ H /\ ~G => CandidatesFrom(s, i) = <<b>> \o rs
        /\ G /\ s.staged[i] = Deleted => CandidatesFrom(s, i) = rs
        /\ G /\ s.staged[i] # Deleted => CandidatesFrom(s, i) = <<g>> \o rs
    BY <2>4, <2>5 DEF Held
  <2>7. H \/ G
    BY <1>2, <1>6 DEF Stop
  <2> HIDE DEF E, rows, c, o, cs, os, rs, b, g, H, G
  <2>8. ASSUME NEW e \in E
        PROVE  Append(out, e) \in Seq(E) /\ Append(out, e) \o rs = out \o (<<e>> \o rs)
    <3>1. out \in Seq(E) /\ rs \in Seq(E) /\ <<e>> \in Seq(E) /\ Append(out, e) = out \o <<e>>
      BY <1>1, <2>1
    <3> QED BY <3>1, ConcatAssociative
  <2>9. \A e \in E, r \in Seq(E) : <<e>> \o r # <<>> /\ (<<e>> \o r)[1] = e /\ Tail(<<e>> \o r) = r
    OBVIOUS
  <2>10. G => LET more == EmitStaged(out, g) IN more \in Seq(E) /\ more \o rs = CandidatesFrom(s, 1)
    <3>1. CASE G /\ s.staged[i] = Deleted
      BY <1>1, <1>4, <2>2, <2>6, <3>1 DEF EmitStaged
    <3>2. CASE G /\ s.staged[i] # Deleted
      BY <1>4, <2>2, <2>6, <2>8, <3>2 DEF EmitStaged
    <3> QED BY <3>1, <3>2
  <2>11. CASE H /\ ~G
    <3>1. c # <<>> /\ c[1] = b /\ Tail(c) = cs /\ o = os
      BY <2>1, <2>2, <2>3, <2>9, <2>11
    <3>2. ComesFirst(c, o) /\ ~ComesFirst(o, c) /\ ~Ties(c, o)
      BY <1>3, <2>1, <2>2, <3>1 DEF ComesFirst, Ties
    <3>3. Turn(it) = It(cs, os, Append(out, b))
      <4>1. Turn(it) = It(Tail(c), o, Append(out, c[1]))
        BY <1>4, <3>2, TurnCases
      <4> QED BY <3>1, <4>1
    <3>4. Append(out, b) \in Seq(E) /\ Append(out, b) \o rs = CandidatesFrom(s, 1)
      BY <1>4, <2>2, <2>6, <2>8, <2>11
    <3> QED BY <2>0, <3>3, <3>4 DEF At, cs, os, rs, E
  <2>12. CASE G /\ ~H
    <3>1. o # <<>> /\ o[1] = g /\ Tail(o) = os /\ c = cs
      BY <2>1, <2>2, <2>3, <2>9, <2>12
    <3>2. ~ComesFirst(c, o) /\ ComesFirst(o, c) /\ ~Ties(c, o)
      BY <1>3, <2>1, <2>2, <3>1 DEF ComesFirst, Ties
    <3>3. Turn(it) = It(cs, os, EmitStaged(out, g))
      <4>1. Turn(it) = It(c, Tail(o), EmitStaged(out, o[1]))
        BY <1>4, <3>2, TurnCases
      <4> QED BY <3>1, <4>1
    <3> QED BY <2>0, <2>10, <2>12, <3>3 DEF At, cs, os, rs, E
  <2>13. CASE G /\ H
    <3>1. /\ o # <<>> /\ o[1] = g /\ Tail(o) = os
          /\ c # <<>> /\ c[1] = b /\ Tail(c) = cs
      BY <2>1, <2>2, <2>3, <2>9, <2>13
    <3>2. ~ComesFirst(c, o) /\ ~ComesFirst(o, c) /\ Ties(c, o)
      BY <1>3, <2>1, <2>2, <3>1 DEF ComesFirst, Ties
    <3>3. Turn(it) = It(cs, os, EmitStaged(out, g))
      <4>1. Turn(it) = It(Tail(c), Tail(o), EmitStaged(out, o[1]))
        BY <1>4, <3>2, TurnCases
      <4> QED BY <3>1, <4>1
    <3> QED BY <2>0, <2>10, <2>13, <3>3 DEF At, cs, os, rs, E
  <2> QED BY <2>7, <2>11, <2>12, <2>13
<1> QED BY <1>5, <1>6

(* The recursive function of Scan, in the same way.                        *)
ScanBody(base, staged, range, after, n) ==
  IF n = 0 THEN NewScan(base, staged, range) ELSE Turn(after[n - 1])

LEMMA ScanExists ==
  ASSUME NEW base, NEW staged, NEW range
  PROVE  \E f : f = [n \in 0..MaxTurns |-> ScanBody(base, staged, range, f, n)]
<1> DEFINE Body(f, n) == ScanBody(base, staged, range, f, n)
           Ok(m) == \E f : f = [n \in 0..m |-> Body(f, n)]
           S == {m \in Nat : Ok(m)}
<1>1. 0 \in S
  <2> DEFINE f == [n \in 0..0 |-> NewScan(base, staged, range)]
  <2>1. f = [n \in 0..0 |-> Body(f, n)]
    BY DEF ScanBody
  <2> QED BY <2>1
<1>2. ASSUME NEW m \in Nat, m \in S PROVE m + 1 \in S
  <2>1. PICK f : f = [n \in 0..m |-> Body(f, n)]
    BY <1>2
  <2> DEFINE g == [n \in 0..(m + 1) |-> IF n = m + 1 THEN Body(f, n) ELSE f[n]]
  <2>2. ASSUME NEW n \in 0..(m + 1) PROVE g[n] = Body(g, n)
    <3>1. n # 0 => g[n - 1] = f[n - 1]
      BY <2>2
    <3>2. ASSUME n # m + 1 PROVE g[n] = Body(f, n)
      <4>1. n \in 0..m /\ g[n] = f[n]
        BY <3>2
      <4>2. f[n] = [i \in 0..m |-> Body(f, i)][n]
        BY <2>1
      <4> HIDE DEF Body, g
      <4> QED BY <4>1, <4>2
    <3>3. g[n] = Body(f, n)
      BY <2>2, <3>2
    <3> QED BY <3>1, <3>3 DEF ScanBody
  <2>3. g = [n \in 0..(m + 1) |-> Body(g, n)]
    <3> DEFINE h == [n \in 0..(m + 1) |-> Body(g, n)]
    <3>1. \A n \in 0..(m + 1) : g[n] = h[n]
      BY <2>2
    <3> HIDE DEF Body
    <3> QED BY <3>1
  <2> HIDE DEF Body, g
  <2>4. Ok(m + 1)
    BY <2>3
  <2> HIDE DEF Ok
  <2> QED BY <2>4
<1>3. MaxTurns \in S
  <2> HIDE DEF S
  <2> QED BY <1>1, <1>2, NatSetInduction, MaxKeyAssumption DEF MaxTurns
<1> QED BY <1>3

LEMMA ScanUnfolds ==
  ASSUME NEW base, NEW staged, NEW range
  PROVE  \A n \in 0..MaxTurns :
           Scan(base, staged, range)[n] =
             IF n = 0 THEN NewScan(base, staged, range) ELSE Turn(Scan(base, staged, range)[n - 1])
<1> DEFINE Is(f) == f = [n \in 0..MaxTurns |-> ScanBody(base, staged, range, f, n)]
           scan == Scan(base, staged, range)
<1>1. \E f : Is(f)
  BY ScanExists
<1>2. scan = CHOOSE f : Is(f)
  BY Zenon DEF Scan, ScanBody
<1>3. Is(scan)
  <2> HIDE DEF Is, scan
  <2> QED BY <1>1, <1>2, Zenon
<1>4. \A n \in 0..MaxTurns : scan[n] = ScanBody(base, staged, range, scan, n)
  <2> HIDE DEF scan
  <2> QED BY <1>3
<1> QED BY <1>4 DEF ScanBody

(* After n turns the scan is beyond the first n keys, or at the end.       *)
LEMMA ScanAt ==
  ASSUME NEW s
  PROVE  \A n \in 0..MaxTurns : \E k \in 1..(MaxKey + 1) :
           At(s, Scan(s.base, s.staged, s.range)[n], k) /\ (k > n \/ k = MaxKey + 1)
<1> DEFINE scan == Scan(s.base, s.staged, s.range)
           Ok(n) == \E k \in 1..(MaxKey + 1) : At(s, scan[n], k) /\ (k > n \/ k = MaxKey + 1)
           S == {n \in Nat : n <= MaxTurns => Ok(n)}
<1>0. MaxTurns \in Nat /\ 1 \in 1..(MaxKey + 1)
  BY MaxKeyAssumption DEF MaxTurns
<1>1. 0 \in S
  <2>1. scan[0] = NewScan(s.base, s.staged, s.range)
    BY <1>0, ScanUnfolds
  <2>2. NewScan(s.base, s.staged, s.range) =
          It(BaseFrom(s, 1), StagedFrom(s, 1), <<>>)
    BY DEF NewScan, EntriesIn, It, BaseFrom, StagedFrom, From
  <2>3. <<>> \in Seq(Entries(s)) /\ <<>> \o CandidatesFrom(s, 1) = CandidatesFrom(s, 1)
    BY <1>0, EntriesTyped
  <2>4. At(s, scan[0], 1)
    BY <2>1, <2>2, <2>3 DEF At
  <2> QED BY <1>0, <2>4
<1>2. ASSUME NEW n \in Nat, n \in S PROVE n + 1 \in S
  <2>1. SUFFICES ASSUME n + 1 <= MaxTurns PROVE Ok(n + 1)
    OBVIOUS
  <2>2. PICK k \in 1..(MaxKey + 1) : At(s, scan[n], k) /\ (k > n \/ k = MaxKey + 1)
    BY <1>0, <1>2, <2>1
  <2>3. scan[n + 1] = Turn(scan[n])
    <3>1. n + 1 \in 0..MaxTurns /\ n + 1 # 0 /\ (n + 1) - 1 = n
      BY <1>0, <2>1
    <3> QED BY <3>1, ScanUnfolds
  <2> HIDE DEF scan
  <2>4. PICK j \in 1..(MaxKey + 1) : At(s, Turn(scan[n]), j) /\ (j > k \/ j = MaxKey + 1)
    BY <2>2, TurnMoves
  <2>5. j > n + 1 \/ j = MaxKey + 1
    BY <2>2, <2>4, MaxKeyAssumption
  <2> QED BY <2>3, <2>4, <2>5
<1> HIDE DEF Ok
<1>3. Nat \subseteq S
  <2> HIDE DEF S
  <2> QED BY <1>1, <1>2, NatSetInduction
<1>4. \A n \in 0..MaxTurns : Ok(n)
  BY <1>0, <1>3
<1> QED BY <1>4 DEF Ok

(* A scan has returned a prefix of the candidate at any time, and all of   *)
(* it after MaxTurns turns.                                                *)
LEMMA ScansReturnCandidates ==
  ASSUME NEW s PROVE ReturnsCandidate(s)
<1> DEFINE rows == EntriesIn(CandidateRows(s.base, s.staged), s.range)
           scan == Scan(s.base, s.staged, s.range)
<1>0. rows = CandidatesFrom(s, 1)
  BY DEF EntriesIn, CandidatesFrom, From
<1>1. ASSUME NEW n \in 0..MaxTurns PROVE IsPrefix(scan[n].emitted, rows)
  <2>1. PICK k \in 1..(MaxKey + 1) : At(s, scan[n], k)
    BY <1>1, ScanAt
  <2>2. PICK out \in Seq(Entries(s)) : out \o CandidatesFrom(s, k) = CandidatesFrom(s, 1) /\ scan[n].emitted = out
    BY <2>1 DEF At, It
  <2>3. CandidatesFrom(s, k) \in Seq(Entries(s))
    BY EntriesTyped
  <2>4. \A t \in Seq(Entries(s)) : IsPrefix(out, out \o t)
    BY <2>2 DEF IsPrefix
  <2> QED BY <1>0, <2>2, <2>3, <2>4
<1>2. scan[MaxTurns].emitted = rows
  <2>1. MaxTurns \in 0..MaxTurns
    BY MaxKeyAssumption DEF MaxTurns
  <2>2. PICK k \in 1..(MaxKey + 1) : At(s, scan[MaxTurns], k) /\ (k > MaxTurns \/ k = MaxKey + 1)
    BY <2>1, ScanAt
  <2>3. k = MaxKey + 1
    BY <2>2, MaxKeyAssumption DEF MaxTurns
  <2>4. CandidatesFrom(s, k) = <<>>
    BY <2>3, FromUnfolds DEF CandidatesFrom
  <2>5. PICK out \in Seq(Entries(s)) : out \o CandidatesFrom(s, k) = CandidatesFrom(s, 1) /\ scan[MaxTurns].emitted = out
    BY <2>2 DEF At, It
  <2>6. out \o <<>> = out
    BY <2>5
  <2> QED BY <1>0, <2>4, <2>5, <2>6
<1> QED BY <1>1, <1>2 DEF ReturnsCandidate

(* A scan over any committed relation, overlay and key range returns the   *)
(* candidate rows in key order, each once, however early its caller stops. *)
THEOREM ScansAreCandidates == MCSpec => []ScanIsCandidate
<1>1. ScanIsCandidate
  BY ScansReturnCandidates DEF ScanIsCandidate
<1> QED
  BY <1>1, PTL

-----------------------------------------------------------------------------
(* Activations: the inductive invariant.                                   *)

USE TargetAssumption, NoneAssumption, UntouchedAssumption, BoundAssumption

SavepointsAreNotNewer == \A s \in savepoints : s.activation_id <= activation_id

(* commit refuses a helper-managed root, so activate never finds it committed. *)
HelperRootsStayUncommitted == state = "Committed" => ~helper_managed

TableInv ==
  /\ TypeOK
  /\ HelperRootsStayUncommitted
  /\ RequiredReferencesHold
  /\ SavepointsAreNotNewer
  /\ ReferencesFollowRows

-----------------------------------------------------------------------------
(* The overlay as a function: what reading through it returns.             *)

(* The empty log, and a log with one more entry. *)
LEMMA LogTypes ==
  ASSUME NEW S
  PROVE  /\ <<>> \in Seq(S)
         /\ \A log \in Seq(S), e \in S : Append(log, e) \in Seq(S)
  OBVIOUS

(* An empty overlay shows the committed map. *)
LEMMA MergeOfNoOverlay ==
  ASSUME NEW S, NEW base \in [Cells -> S]
  PROVE  Merge(base, NoOverlay) = base
  BY DEF Merge, NoOverlay

(* Reading through the overlay yields rows and sets of cells. *)
LEMMA MergeTypes ==
  ASSUME TypeOK
  PROVE  /\ candidate \in [Cells -> Rows \cup {None}]
         /\ required_references_candidate \in [Cells -> SUBSET Cells]
         /\ Installed \in [Cells -> SUBSET Cells]
  BY DEF TypeOK, candidate, required_references_candidate, Merge, Overlays,
     ReferenceOverlays, Installed

-----------------------------------------------------------------------------
(* Type correctness.                                                       *)

(* The empty database. *)
LEMMA InitTypeOK == Init => TypeOK
<1> SUFFICES ASSUME Init PROVE TypeOK
  OBVIOUS
<1>1. rekey_changes \in Seq(Cells \X Cells)
  BY LogTypes DEF Init
<1>2. overlay \in Overlays /\ required_reference_overlay \in ReferenceOverlays
  BY DEF Init, NoOverlay, Overlays, ReferenceOverlays
<1>3. savepoints \subseteq SavepointType
  BY DEF Init
<1> QED
  BY <1>1, <1>2, <1>3 DEF Init, TypeOK, States, Results

(* Staging well-typed maps keeps the types. *)
LEMMA StageTypeOK ==
  ASSUME TypeOK, NEW o \in Overlays, NEW changes \in Seq(Cells \X Cells),
         NEW refs \in ReferenceOverlays, Stage(o, changes, refs)
  PROVE  TypeOK'
  BY DEF TypeOK, Stage, runtimeVars, rootVars, Results

(* A refused call changes its result only. *)
LEMMA RefuseTypeOK ==
  ASSUME TypeOK, NEW error \in Results, Refuse(error)
  PROVE  TypeOK'
  BY DEF TypeOK, Refuse, runtimeVars, overlayVars, rootVars

(* Every step keeps the types. *)
LEMMA NextTypeOK == TypeOK /\ [Next]_vars => TypeOK'
<1> SUFFICES ASSUME TypeOK, [Next]_vars PROVE TypeOK'
  OBVIOUS
<1> USE DEF Results
<1>m. /\ candidate \in [Cells -> Rows \cup {None}]
      /\ required_references_candidate \in [Cells -> SUBSET Cells]
      /\ Installed \in [Cells -> SUBSET Cells]
  BY MergeTypes
<1>e. PublishError \in Results
  BY DEF PublishError
<1>n. /\ NoOverlay \in Overlays /\ NoOverlay \in ReferenceOverlays
      /\ <<>> \in Seq(Cells \X Cells)
  BY LogTypes DEF NoOverlay, Overlays, ReferenceOverlays
<1>t. /\ overlay \in Overlays
      /\ rekey_changes \in Seq(Cells \X Cells)
      /\ required_reference_overlay \in ReferenceOverlays
  BY DEF TypeOK
<1>w. /\ \A c \in Cells, v \in Rows \cup {None} : [overlay EXCEPT ![c] = v] \in Overlays
      /\ \A c \in Cells, T \in SUBSET Cells :
           [required_reference_overlay EXCEPT ![c] = T] \in ReferenceOverlays
  BY <1>t DEF Overlays, ReferenceOverlays
<1>1. ASSUME NEW helper \in BOOLEAN, Begin(helper) PROVE TypeOK'
  BY <1>1, <1>n DEF Begin, TypeOK, runtimeVars, States
<1>2. CASE Child
  <2>1. CASE Refuse("UseAfterClose")
    BY <2>1, RefuseTypeOK
  <2> QED BY <1>2, <2>1 DEF Child, Mutation, TypeOK, runtimeVars, overlayVars, rootVars
<1>3. CASE ChildReturns
  BY <1>3 DEF ChildReturns, TypeOK, runtimeVars, overlayVars, rootVars
<1>4. CASE Savepoint
  <2>1. CASE Refuse("UseAfterClose")
    BY <2>1, RefuseTypeOK
  <2>2. SavepointOf(overlay, rekey_changes, required_reference_overlay, activation_id)
          \in SavepointType
    BY <1>t DEF SavepointOf, SavepointType, TypeOK
  <2> QED BY <1>4, <2>1, <2>2 DEF Savepoint, Mutation, TypeOK, runtimeVars, overlayVars, rootVars
<1>5. CASE Commit
  <2>1. ASSUME NEW error \in Results, Refuse(error) PROVE TypeOK'
    BY <2>1, RefuseTypeOK
  <2>2. CASE PublishOpen
    BY <2>1, <2>2, <1>m, <1>e DEF PublishOpen, Install, TypeOK, overlayVars, States
  <2> QED BY <1>5, <2>1, <2>2 DEF Commit
<1>6. CASE Rollback
  <2>1. CASE Refuse("ok")
    BY <2>1, RefuseTypeOK
  <2> QED BY <1>6, <2>1, <1>n DEF Rollback, ClearOverlay, TypeOK, runtimeVars, States
<1>7. CASE Drop
  BY <1>7, <1>n DEF Drop, Destroyed, ClearOverlay, TypeOK, runtimeVars, States
<1>8. CASE OperationReturns
  BY <1>8, <1>n, <1>m, <1>e
     DEF OperationReturns, Install, Destroyed, ClearOverlay, TypeOK, runtimeVars, States
<1>9. ASSUME NEW c \in Cells, Delete(c) PROVE TypeOK'
  BY <1>9, <1>t, <1>w, StageTypeOK, RefuseTypeOK DEF Delete, Mutation
<1>10. ASSUME NEW c \in Cells, NEW row \in Rows, Update(c, row) PROVE TypeOK'
  BY <1>10, <1>t, <1>w, StageTypeOK, RefuseTypeOK DEF Update, Mutation
<1>11. ASSUME NEW c \in Cells, NEW targets \in TargetSets, SetRequiredReferences(c, targets)
       PROVE  TypeOK'
  BY <1>11, <1>t, <1>w, StageTypeOK, RefuseTypeOK DEF SetRequiredReferences, Mutation
<1>12. ASSUME NEW c \in Cells, NEW row \in Rows, NEW targets \in TargetSets,
              Insert(c, row, targets)
       PROVE  TypeOK'
  BY <1>12, <1>t, <1>w, StageTypeOK, RefuseTypeOK DEF Insert, Mutation
<1>13. ASSUME NEW c \in Cells, NEW row \in Rows, NEW targets \in TargetSets,
              UpdateWithReferences(c, row, targets)
       PROVE  TypeOK'
  BY <1>13, <1>t, <1>w, StageTypeOK, RefuseTypeOK DEF UpdateWithReferences, Mutation
<1>14. ASSUME NEW c \in Cells, NEW key \in Keys, Rekey(c, key) PROVE TypeOK'
  <2> DEFINE new == <<c[1], key>>
  <2>1. new \in Cells
    BY DEF Cells
  <2>2. [overlay EXCEPT ![c] = None, ![new] = candidate[c]] \in Overlays
    BY <2>1, <1>m, <1>t DEF Overlays
  <2>3. [required_reference_overlay EXCEPT ![c] = {}, ![new] = required_references_candidate[c]]
          \in ReferenceOverlays
    BY <2>1, <1>m, <1>t DEF ReferenceOverlays
  <2>4. Append(rekey_changes, <<c, new>>) \in Seq(Cells \X Cells)
    <3>1. <<c, new>> \in Cells \X Cells
      BY <2>1
    <3> QED BY <3>1, <1>t, LogTypes
  <2> QED BY <1>14, <2>2, <2>3, <2>4, StageTypeOK, RefuseTypeOK DEF Rekey, Mutation
<1>15. ASSUME NEW s \in savepoints, RollbackTo(s) PROVE TypeOK'
  <2>1. s \in SavepointType
    BY DEF TypeOK
  <2> QED BY <1>15, <2>1, StageTypeOK, RefuseTypeOK DEF RollbackTo, Mutation, SavepointType
<1>16. CASE UNCHANGED vars
  BY <1>16 DEF vars, runtimeVars, overlayVars, rootVars, TypeOK
<1> QED
  BY <1>1, <1>2, <1>3, <1>4, <1>5, <1>6, <1>7, <1>8, <1>9, <1>10, <1>11, <1>12,
     <1>13, <1>14, <1>15, <1>16 DEF Next

(* Every state of an activation, its savepoints and the committed database *)
(* has the types of crates/orna-table.                                     *)
THEOREM TypeCorrect == Spec => []TypeOK
  BY InitTypeOK, NextTypeOK, PTL DEF Spec

-----------------------------------------------------------------------------
(* The invariant.                                                          *)

(* Rows and references of a pair of overlays that belong together. *)
Follows(o, refs) ==
  \A c \in Cells : Merge(committed, o)[c] = None => Merge(required_references, refs)[c] = {}

(* A call that changes the overlay and nothing else but the bookkeeping. *)
StagesTogether ==
  /\ state = "Open"
  /\ Follows(overlay', required_reference_overlay')
  /\ UNCHANGED <<runtimeVars, rootVars, depth, savepoints>>

(* What a step can do to the variables the invariant speaks of. *)
Closes == state' # "Open" /\ UNCHANGED <<activation_id, savepoints>>
StepKeeps == UNCHANGED <<runtimeVars, overlayVars, rootVars, savepoints>>
Takes ==
  /\ savepoints' = savepoints \cup
       {SavepointOf(overlay, rekey_changes, required_reference_overlay, activation_id)}
  /\ UNCHANGED <<runtimeVars, overlayVars, rootVars>>

(* Each call of the API stages rows and references together: a deletion     *)
(* and a re-key clear the targets of the cell they empty, and targets are   *)
(* registered only for a cell that has a row.                               *)
LEMMA CallsStageTogether ==
  ASSUME TypeOK, ReferencesFollowRows, state = "Open"
  PROVE  /\ \A c \in Cells, row \in Rows, targets \in TargetSets :
              Insert(c, row, targets) => StepKeeps \/ StagesTogether
         /\ \A c \in Cells, row \in Rows : Update(c, row) => StepKeeps \/ StagesTogether
         /\ \A c \in Cells, row \in Rows, targets \in TargetSets :
              UpdateWithReferences(c, row, targets) => StepKeeps \/ StagesTogether
         /\ \A c \in Cells, targets \in TargetSets :
              SetRequiredReferences(c, targets) => StepKeeps \/ StagesTogether
         /\ \A c \in Cells : Delete(c) => StepKeeps \/ StagesTogether
         /\ \A c \in Cells, key \in Keys : Rekey(c, key) => StepKeeps \/ StagesTogether
         /\ \A s \in savepoints : RollbackTo(s) => StepKeeps \/ StagesTogether
<1> USE DEF TypeOK, Overlays, ReferenceOverlays
<1>r. \A error : Refuse(error) => StepKeeps
  BY DEF Refuse, StepKeeps
<1>f. \A c \in Cells : candidate[c] = None => required_references_candidate[c] = {}
  BY DEF ReferencesFollowRows
<1>1. ASSUME NEW c \in Cells, NEW row \in Rows, NEW targets \in TargetSets,
             Insert(c, row, targets)
      PROVE  StepKeeps \/ StagesTogether
  BY <1>1, <1>r, <1>f DEF Insert, Mutation, Stage, StagesTogether, Follows, Merge, candidate,
     required_references_candidate, runtimeVars
<1>2. ASSUME NEW c \in Cells, NEW row \in Rows, Update(c, row)
      PROVE  StepKeeps \/ StagesTogether
  BY <1>2, <1>r, <1>f DEF Update, Mutation, Stage, StagesTogether, Follows, Merge, candidate,
     required_references_candidate, runtimeVars
<1>3. ASSUME NEW c \in Cells, NEW row \in Rows, NEW targets \in TargetSets,
             UpdateWithReferences(c, row, targets)
      PROVE  StepKeeps \/ StagesTogether
  BY <1>3, <1>r, <1>f DEF UpdateWithReferences, Mutation, Stage, StagesTogether, Follows, Merge,
     candidate, required_references_candidate, runtimeVars
<1>4. ASSUME NEW c \in Cells, NEW targets \in TargetSets, SetRequiredReferences(c, targets)
      PROVE  StepKeeps \/ StagesTogether
  BY <1>4, <1>r, <1>f DEF SetRequiredReferences, Mutation, Stage, StagesTogether, Follows, Merge,
     candidate, required_references_candidate, runtimeVars
<1>5. ASSUME NEW c \in Cells, Delete(c) PROVE StepKeeps \/ StagesTogether
  BY <1>5, <1>r, <1>f DEF Delete, Mutation, Stage, StagesTogether, Follows, Merge, candidate,
     required_references_candidate, runtimeVars
<1>6. ASSUME NEW c \in Cells, NEW key \in Keys, Rekey(c, key) PROVE StepKeeps \/ StagesTogether
  <2> DEFINE new == <<c[1], key>>
  <2>1. new \in Cells
    BY DEF Cells
  <2>2. candidate \in [Cells -> Rows \cup {None}]
    BY MergeTypes
  <2>3. CASE candidate[c] = None \/ candidate[new] # None
    BY <1>6, <2>3, <1>r DEF Rekey, Mutation
  <2>4. CASE candidate[c] # None /\ candidate[new] = None
    <3> DEFINE o == [overlay EXCEPT ![c] = None, ![new] = candidate[c]]
               refs == [required_reference_overlay EXCEPT ![c] = {},
                                 ![new] = required_references_candidate[c]]
    <3>1. Stage(o, Append(rekey_changes, <<c, new>>), refs)
      BY <1>6, <2>4 DEF Rekey, Mutation
    <3>2. c # new
      BY <2>4
    <3>3. ASSUME NEW d \in Cells, Merge(committed, o)[d] = None
          PROVE  Merge(required_references, refs)[d] = {}
      <4>1. CASE d = c
        BY <4>1, <3>2, <2>1 DEF Merge
      <4>2. CASE d = new
        <5>1. o[d] = candidate[c]
          BY <4>2, <3>2, <2>1
        <5>2. candidate[c] # Untouched
          BY <2>2, <2>4
        <5> QED BY <5>1, <5>2, <3>3, <2>4 DEF Merge
      <4>3. CASE d # c /\ d # new
        BY <4>3, <3>3, <2>1, <1>f DEF Merge, candidate, required_references_candidate
      <4> QED BY <4>1, <4>2, <4>3
    <3> QED
      BY <3>1, <3>3 DEF Stage, StagesTogether, Follows, Merge, runtimeVars
  <2> QED
    BY <2>3, <2>4
<1>7. ASSUME NEW s \in savepoints, RollbackTo(s) PROVE StepKeeps \/ StagesTogether
  <2>1. s.activation_id = activation_id => Follows(s.overlay, s.required_reference_overlay)
    BY DEF ReferencesFollowRows, Follows
  <2> QED
    BY <1>7, <1>r, <2>1 DEF RollbackTo, Mutation, Stage, StagesTogether, Follows, Merge, runtimeVars
<1> QED
  BY <1>1, <1>2, <1>3, <1>4, <1>5, <1>6, <1>7

(* The kinds of steps. *)
LEMMA StepKinds ==
  ASSUME TypeOK, ReferencesFollowRows, [Next]_vars
  PROVE  \/ Install /\ Closes
         \/ UNCHANGED runtimeVars /\ Closes
         \/ StepKeeps
         \/ StagesTogether
         \/ Takes
         \/ \E helper \in BOOLEAN : Begin(helper)
<1>r. \A error : Refuse(error) => StepKeeps
  BY DEF Refuse, StepKeeps
<1>1. CASE Child \/ ChildReturns \/ UNCHANGED vars
  BY <1>1, <1>r DEF Child, ChildReturns, Mutation, StepKeeps, vars
<1>2. CASE Savepoint
  BY <1>2, <1>r DEF Savepoint, Mutation, Takes
<1>3. CASE Commit
  BY <1>3, <1>r DEF Commit, PublishOpen, Closes
<1>4. CASE Rollback
  BY <1>4, <1>r DEF Rollback, Closes
<1>5. CASE Drop \/ OperationReturns
  BY <1>5 DEF Drop, OperationReturns, Destroyed, Closes
<1>6. CASE state = "Open"
  BY <1>1, <1>2, <1>3, <1>4, <1>5, <1>6, CallsStageTogether DEF Next
<1>7. CASE state # "Open"
  <2>1. \A step : Mutation(step) => StepKeeps
    BY <1>7, <1>r DEF Mutation
  <2> QED
    BY <1>1, <1>2, <1>3, <1>4, <1>5, <1>7, <2>1 DEF Next, Insert, Update, UpdateWithReferences,
       SetRequiredReferences, Delete, Rekey, RollbackTo
<1> QED
  BY <1>6, <1>7

(* No activation and no savepoint. *)
LEMMA InitTableInv == Init => TableInv
  BY InitTypeOK DEF Init, TableInv, HelperRootsStayUncommitted, RequiredReferencesHold, SavepointsAreNotNewer,
     ReferencesFollowRows

(* Publication installs targets only for rows it installs, and refuses when *)
(* one of them is missing; no other step touches the committed database.   *)
LEMMA NextReferencesHold ==
  ASSUME TableInv, [Next]_vars
  PROVE  RequiredReferencesHold'
<1>1. CASE Install
  BY <1>1, MergeTypes DEF Install, Publishable, Dangling, Installed, RequiredReferencesHold, TableInv
<1>2. CASE UNCHANGED runtimeVars
  BY <1>2 DEF TableInv, RequiredReferencesHold, runtimeVars
<1> QED
  BY <1>1, <1>2, StepKinds DEF TableInv, StepKeeps, StagesTogether, Takes, Begin

(* A savepoint carries the identifier of the activation that took it, and  *)
(* identifiers only grow.                                                  *)
LEMMA NextSavepointsAreNotNewer ==
  ASSUME TableInv, [Next]_vars
  PROVE  SavepointsAreNotNewer'
<1> USE DEF TableInv, SavepointsAreNotNewer, rootVars
<1>t. activation_id \in Nat /\ savepoints \subseteq SavepointType
  BY DEF TypeOK
<1>1. CASE Takes
  BY <1>1, <1>t DEF Takes, SavepointOf
<1>2. ASSUME NEW helper \in BOOLEAN, Begin(helper) PROVE SavepointsAreNotNewer'
  BY <1>2, <1>t DEF Begin, SavepointType
<1> QED
  BY <1>1, <1>2, StepKinds DEF StepKeeps, StagesTogether, Closes

(* Begin makes every savepoint foreign; the other steps that leave the     *)
(* activation open leave the committed database, hence the meaning of its  *)
(* savepoints, alone.                                                      *)
LEMMA NextReferencesFollowRows ==
  ASSUME TableInv, [Next]_vars
  PROVE  ReferencesFollowRows'
<1> USE DEF TableInv
<1>t. activation_id \in Nat /\ savepoints \subseteq SavepointType
  BY DEF TypeOK
<1>1. CASE Closes
  BY <1>1 DEF Closes, ReferencesFollowRows
<1>2. CASE StepKeeps
  BY <1>2 DEF StepKeeps, ReferencesFollowRows, candidate, required_references_candidate, Merge,
     runtimeVars, overlayVars, rootVars
<1>3. CASE StagesTogether
  BY <1>3 DEF StagesTogether, Follows, ReferencesFollowRows, candidate,
     required_references_candidate, Merge, runtimeVars, rootVars
<1>4. CASE Takes
  BY <1>4 DEF Takes, SavepointOf, ReferencesFollowRows, candidate,
     required_references_candidate, Merge, runtimeVars, overlayVars, rootVars
<1>5. ASSUME NEW helper \in BOOLEAN, Begin(helper) PROVE ReferencesFollowRows'
  <2>1. \A s \in savepoints' : s.activation_id # activation_id'
    BY <1>5, <1>t DEF Begin, SavepointsAreNotNewer, SavepointType
  <2>2. candidate' = committed /\ required_references_candidate' = required_references
    BY <1>5 DEF Begin, candidate, required_references_candidate, Merge, NoOverlay, runtimeVars, TypeOK
  <2> QED
    BY <2>1, <2>2 DEF ReferencesFollowRows, RequiredReferencesHold
<1> QED
  BY <1>1, <1>2, <1>3, <1>4, <1>5, StepKinds

(* Only commit reaches Committed, and only on a root of begin. *)
LEMMA NextHelperRoots ==
  ASSUME TableInv, [Next]_vars
  PROVE  HelperRootsStayUncommitted'
<1> USE DEF TableInv, HelperRootsStayUncommitted
<1>r. \A error : Refuse(error) => UNCHANGED rootVars
  BY DEF Refuse
<1>1. CASE UNCHANGED rootVars
  BY <1>1 DEF rootVars
<1>2. CASE Commit
  BY <1>2, <1>r, <1>1 DEF Commit, PublishOpen
<1>3. CASE state' # "Committed"
  BY <1>3
<1>4. \A o, changes, refs : Stage(o, changes, refs) => UNCHANGED rootVars
  BY DEF Stage
<1> QED
  BY <1>1, <1>2, <1>3, <1>4, <1>r DEF Next, vars, Begin, Child, ChildReturns, Savepoint, Rollback,
     Drop, OperationReturns, Destroyed, Insert, Update, UpdateWithReferences, Mutation,
     SetRequiredReferences, Delete, Rekey, RollbackTo

(* The parts of the invariant, together. *)
LEMMA NextTableInv == TableInv /\ [Next]_vars => TableInv'
  BY NextTypeOK, NextHelperRoots, NextReferencesHold, NextSavepointsAreNotNewer, NextReferencesFollowRows
     DEF TableInv

(* The invariant holds throughout. *)
LEMMA AlwaysTableInv == Spec => []TableInv
  BY InitTableInv, NextTableInv, PTL DEF Spec

(* DatabaseActivation::publish keeps the committed database closed under   *)
(* required references through any sequence of activations.                *)
THEOREM CommittedReferencesHold == Spec => []RequiredReferencesHold
<1>1. TableInv => RequiredReferencesHold
  BY DEF TableInv
<1> QED
  BY <1>1, AlwaysTableInv, PTL

(* insert, delete, rekey and rollback_to keep the row overlay and the      *)
(* reference overlay of an activation and of its savepoints together.      *)
THEOREM ReferencesAlwaysFollowRows == Spec => []ReferencesFollowRows
<1>1. TableInv => ReferencesFollowRows
  BY DEF TableInv
<1> QED
  BY <1>1, AlwaysTableInv, PTL

-----------------------------------------------------------------------------
(* The overlay implements a private copy.                                  *)

Kept == {SavepointView(s) : s \in savepoints}

(* A refused call is a refused call of the abstract activation. *)
LEMMA RefusalRefines ==
  ASSUME NEW error, Refuse(error)
  PROVE  Tx!Refuse(error)
  BY DEF Refuse, Tx!Refuse, Tx!Return, Shown, candidate, required_references_candidate, Merge,
     SavepointView, runtimeVars, overlayVars, rootVars

(* Replacing the overlay is replacing the private copy. *)
LEMMA StageRefines ==
  ASSUME state = "Open", NEW o, NEW changes, NEW refs, Stage(o, changes, refs)
  PROVE  Tx!Work(Merge(committed, o), Merge(required_references, refs), changes)
<1>1. /\ candidate' = Merge(committed, o)
      /\ required_references_candidate' = Merge(required_references, refs)
  BY DEF Stage, candidate, required_references_candidate, Merge, runtimeVars
<1>2. Kept' = Kept
  BY DEF Stage, Kept, SavepointView, Merge, runtimeVars, rootVars
<1> QED
  BY <1>1, <1>2 DEF Stage, Tx!Work, Tx!Return, Shown, Kept, runtimeVars, rootVars

(* Calls that change the overlay. *)
LEMMA CallsRefine ==
  ASSUME TableInv, state = "Open"
  PROVE  /\ \A c \in Cells, row \in Rows, targets \in TargetSets :
              Insert(c, row, targets) => Tx!Next
         /\ \A c \in Cells, row \in Rows : Update(c, row) => Tx!Next
         /\ \A c \in Cells, row \in Rows, targets \in TargetSets :
              UpdateWithReferences(c, row, targets) => Tx!Next
         /\ \A c \in Cells, targets \in TargetSets :
              SetRequiredReferences(c, targets) => Tx!Next
         /\ \A c \in Cells : Delete(c) => Tx!Next
         /\ \A c \in Cells, key \in Keys : Rekey(c, key) => Tx!Next
         /\ \A s \in savepoints : RollbackTo(s) => Tx!Next
<1>t. /\ overlay \in Overlays /\ required_reference_overlay \in ReferenceOverlays
      /\ candidate \in [Cells -> Rows \cup {None}]
      /\ required_references_candidate \in [Cells -> SUBSET Cells]
  BY MergeTypes DEF TableInv, TypeOK
<1>v. /\ Shown(committed, candidate) = candidate
      /\ Shown(required_references, required_references_candidate) = required_references_candidate
  BY DEF Shown
<1>c. Tx!Cells = Cells
  BY DEF Tx!Cells, Cells
<1>w. /\ \A c \in Cells, v \in Rows \cup {None} :
           Merge(committed, [overlay EXCEPT ![c] = v]) = [candidate EXCEPT ![c] = v]
      /\ \A c \in Cells, T \in SUBSET Cells :
           Merge(required_references, [required_reference_overlay EXCEPT ![c] = T])
             = [required_references_candidate EXCEPT ![c] = T]
  <2>1. ASSUME NEW c \in Cells, NEW v \in Rows \cup {None}
        PROVE  Merge(committed, [overlay EXCEPT ![c] = v]) = [candidate EXCEPT ![c] = v]
    BY <1>t DEF candidate, Merge, Overlays
  <2>2. ASSUME NEW c \in Cells, NEW T \in SUBSET Cells
        PROVE  Merge(required_references, [required_reference_overlay EXCEPT ![c] = T])
                 = [required_references_candidate EXCEPT ![c] = T]
    <3>1. T # Untouched
      BY UntouchedAssumption
    <3>2. required_reference_overlay \in [Cells -> {Untouched} \cup SUBSET Cells]
      BY <1>t DEF ReferenceOverlays
    <3> QED BY <3>1, <3>2 DEF required_references_candidate, Merge
  <2> QED BY <2>1, <2>2
<1>g. \A targets \in TargetSets : targets \in SUBSET Cells
  BY TargetAssumption
<1>d. ASSUME NEW c \in Cells, candidate[c] # None, Refuse("DuplicateKey") PROVE Tx!Next
  BY <1>d, <1>v, <1>c, RefusalRefines DEF Tx!Next, Tx!Reject
<1>m. ASSUME NEW c \in Cells, candidate[c] = None, Refuse("MissingRow") PROVE Tx!Next
  BY <1>m, <1>v, <1>c, RefusalRefines DEF Tx!Next, Tx!Reject
<1>s. \A o, changes, refs : Stage(o, changes, refs) =>
        Tx!Work(Merge(committed, o), Merge(required_references, refs), changes)
  BY StageRefines
<1>1. ASSUME NEW c \in Cells, NEW row \in Rows, NEW targets \in TargetSets,
             Insert(c, row, targets)
      PROVE  Tx!Next
  <2>1. CASE candidate[c] = None
    <3>1. Tx!Insert(c, row, targets)
      <4>1. Stage([overlay EXCEPT ![c] = row], rekey_changes,
                  [required_reference_overlay EXCEPT ![c] = targets])
        BY <1>1, <2>1 DEF Insert, Mutation
      <4>2. /\ Merge(committed, [overlay EXCEPT ![c] = row]) = [candidate EXCEPT ![c] = row]
            /\ Merge(required_references, [required_reference_overlay EXCEPT ![c] = targets])
                 = [required_references_candidate EXCEPT ![c] = targets]
        BY <1>w, <1>g
      <4>3. Tx!Work([candidate EXCEPT ![c] = row],
                    [required_references_candidate EXCEPT ![c] = targets], rekey_changes)
        BY <4>1, <4>2, <1>s
      <4> QED BY <4>3, <2>1, <1>v DEF Tx!Insert
    <3> QED BY <3>1, <1>c DEF Tx!Next
  <2> QED BY <1>1, <1>d, <2>1 DEF Insert, Mutation
<1>2. ASSUME NEW c \in Cells, NEW row \in Rows, Update(c, row)
      PROVE  Tx!Next
  <2>1. CASE candidate[c] # None
    <3>1. Tx!Update(c, row)
      <4>1. Stage([overlay EXCEPT ![c] = row], rekey_changes, required_reference_overlay)
        BY <1>2, <2>1 DEF Update, Mutation
      <4>2. Merge(committed, [overlay EXCEPT ![c] = row]) = [candidate EXCEPT ![c] = row]
        BY <1>w
      <4>3. Tx!Work([candidate EXCEPT ![c] = row], required_references_candidate, rekey_changes)
        BY <4>1, <4>2, <1>s DEF required_references_candidate
      <4> QED BY <4>3, <2>1, <1>v DEF Tx!Update
    <3> QED BY <3>1, <1>c DEF Tx!Next
  <2> QED BY <1>2, <1>m, <2>1 DEF Update, Mutation
<1>3. ASSUME NEW c \in Cells, NEW row \in Rows, NEW targets \in TargetSets,
             UpdateWithReferences(c, row, targets)
      PROVE  Tx!Next
  <2>1. CASE candidate[c] # None
    <3>1. Tx!Work([candidate EXCEPT ![c] = row],
                  [required_references_candidate EXCEPT ![c] = targets], rekey_changes)
      <4>1. Stage([overlay EXCEPT ![c] = row], rekey_changes,
                  [required_reference_overlay EXCEPT ![c] = targets])
        BY <1>3, <2>1 DEF UpdateWithReferences, Mutation
      <4>2. /\ Merge(committed, [overlay EXCEPT ![c] = row]) = [candidate EXCEPT ![c] = row]
            /\ Merge(required_references, [required_reference_overlay EXCEPT ![c] = targets])
                 = [required_references_candidate EXCEPT ![c] = targets]
        BY <1>w, <1>g
      <4> QED BY <4>1, <4>2, <1>s
    <3> QED BY <3>1, <2>1, <1>v, <1>c DEF Tx!Next
  <2> QED BY <1>3, <1>m, <2>1 DEF UpdateWithReferences, Mutation
<1>4. ASSUME NEW c \in Cells, NEW targets \in TargetSets, SetRequiredReferences(c, targets)
      PROVE  Tx!Next
  <2>1. CASE candidate[c] # None
    <3>1. Tx!SetReferences(c, targets)
      <4>1. Stage(overlay, rekey_changes, [required_reference_overlay EXCEPT ![c] = targets])
        BY <1>4, <2>1 DEF SetRequiredReferences, Mutation
      <4>2. Merge(required_references, [required_reference_overlay EXCEPT ![c] = targets])
              = [required_references_candidate EXCEPT ![c] = targets]
        BY <1>w, <1>g
      <4>3. Tx!Work(candidate, [required_references_candidate EXCEPT ![c] = targets], rekey_changes)
        BY <4>1, <4>2, <1>s DEF candidate
      <4> QED BY <4>3, <2>1, <1>v DEF Tx!SetReferences
    <3> QED BY <3>1, <1>c DEF Tx!Next
  <2> QED BY <1>4, <1>m, <2>1 DEF SetRequiredReferences, Mutation
<1>5. ASSUME NEW c \in Cells, Delete(c) PROVE Tx!Next
  <2>1. CASE candidate[c] # None
    <3>1. Tx!Delete(c)
      <4>1. Tx!Work([candidate EXCEPT ![c] = None],
                    [required_references_candidate EXCEPT ![c] = {}], rekey_changes)
        <5>1. Stage([overlay EXCEPT ![c] = None], rekey_changes,
                    [required_reference_overlay EXCEPT ![c] = {}])
          BY <1>5, <2>1 DEF Delete, Mutation
        <5>2. /\ Merge(committed, [overlay EXCEPT ![c] = None]) = [candidate EXCEPT ![c] = None]
              /\ Merge(required_references, [required_reference_overlay EXCEPT ![c] = {}])
                   = [required_references_candidate EXCEPT ![c] = {}]
          BY <1>w
        <5> QED BY <5>1, <5>2, <1>s
      <4> QED BY <4>1, <2>1, <1>v DEF Tx!Delete
    <3> QED BY <3>1, <1>c DEF Tx!Next
  <2> QED BY <1>5, <1>m, <2>1 DEF Delete, Mutation
<1>6. ASSUME NEW c \in Cells, NEW key \in Keys, Rekey(c, key) PROVE Tx!Next
  <2> DEFINE new == <<c[1], key>>
             o == [overlay EXCEPT ![c] = None, ![new] = candidate[c]]
             refs == [required_reference_overlay EXCEPT ![c] = {},
                               ![new] = required_references_candidate[c]]
  <2>1. new \in Cells
    BY DEF Cells
  <2>2. CASE candidate[c] # None /\ candidate[new] = None
    <3>1. Stage(o, Append(rekey_changes, <<c, new>>), refs)
      BY <1>6, <2>2 DEF Rekey, Mutation
    <3>2. Merge(committed, o) = [candidate EXCEPT ![c] = None, ![new] = candidate[c]]
      <4>1. candidate[c] # Untouched /\ None # Untouched
        BY <1>t, UntouchedAssumption
      <4>2. overlay \in [Cells -> Rows \cup {None, Untouched}]
        BY <1>t DEF Overlays
      <4> HIDE DEF new
      <4> QED BY <4>1, <4>2, <2>1, <1>t DEF candidate, Merge
    <3>3. Merge(required_references, refs)
            = [required_references_candidate EXCEPT ![c] = {}, ![new] = required_references_candidate[c]]
      <4>1. required_references_candidate[c] # Untouched /\ {} # Untouched
        BY <1>t, UntouchedAssumption
      <4>2. required_reference_overlay \in [Cells -> {Untouched} \cup SUBSET Cells]
        BY <1>t DEF ReferenceOverlays
      <4> HIDE DEF new
      <4> QED BY <4>1, <4>2, <2>1, <1>t DEF required_references_candidate, Merge
    <3>4. Tx!Rekey(c, new)
      BY <3>1, <3>2, <3>3, <2>2, <1>v, <1>s DEF Tx!Rekey
    <3> QED BY <3>4, <1>c DEF Tx!Next
  <2> QED BY <1>6, <1>m, <1>d, <2>1, <2>2 DEF Rekey, Mutation
<1>7. ASSUME NEW s \in savepoints, RollbackTo(s) PROVE Tx!Next
  <2>1. SavepointView(s) \in Kept
    BY DEF Kept
  <2>2. CASE s.activation_id = activation_id
    <3>1. Tx!Work(Merge(committed, s.overlay),
                  Merge(required_references, s.required_reference_overlay), s.rekey_changes)
      BY <1>7, <2>2, <1>s DEF RollbackTo, Mutation
    <3>2. SavepointView(s) = [view |-> Merge(committed, s.overlay),
                              refs |-> Merge(required_references, s.required_reference_overlay),
                              log |-> s.rekey_changes]
      BY <2>2 DEF SavepointView
    <3>3. SavepointView(s) # Foreign
      <4>1. s \in SavepointType
        BY DEF TableInv, TypeOK
      <4>2. /\ Merge(committed, s.overlay) \in [Cells -> Rows \cup {None}]
            /\ Merge(required_references, s.required_reference_overlay) \in [Cells -> SUBSET Cells]
            /\ s.rekey_changes \in Seq(Cells \X Cells)
        BY <4>1 DEF SavepointType, Merge, Overlays, ReferenceOverlays, TableInv, TypeOK
      <4> QED BY <4>2, <3>2, ForeignAssumption
    <3>4. Tx!RollbackTo(SavepointView(s))
      BY <3>1, <3>2, <3>3 DEF Tx!RollbackTo
    <3> QED BY <3>4, <2>1 DEF Tx!Next, Kept
  <2>3. CASE s.activation_id # activation_id
    <3>1. Refuse("ForeignSavepoint") /\ SavepointView(s) = Foreign
      BY <1>7, <2>3 DEF RollbackTo, Mutation, SavepointView
    <3> QED BY <3>1, <2>1, RefusalRefines DEF Tx!Next, Tx!Reject, Kept
  <2> QED BY <2>2, <2>3
<1> QED
  BY <1>1, <1>2, <1>3, <1>4, <1>5, <1>6, <1>7

(* Steps in the life of the activation.  A step that ends it makes every   *)
(* savepoint foreign and shows the committed database again.               *)
LEMMA LifeRefines ==
  ASSUME TableInv
  PROVE  /\ \A helper \in BOOLEAN : Begin(helper) => Tx!Next
         /\ Child => Tx!Next
         /\ ChildReturns => Tx!Next
         /\ Savepoint => Tx!Next
         /\ Commit => Tx!Next
         /\ Rollback => Tx!Next
         /\ Drop => Tx!Next
         /\ OperationReturns => Tx!Next
<1> USE DEF Tx!Return
<1>t. TypeOK
  BY DEF TableInv
<1>r. \A error : Refuse(error) => Tx!Refuse(error)
  BY RefusalRefines
<1>u. state \in {"Committed", "RolledBack"} /\ Refuse("UseAfterClose") => Tx!Next
  BY <1>r DEF Tx!Next, Tx!Reject
<1>k. ASSUME state' # "Open" \/ (\A s \in savepoints : s.activation_id # activation_id'),
             savepoints' = savepoints
      PROVE  Kept' = {Foreign : s \in Kept}
  <2>1. \A s \in savepoints : SavepointView(s)' = Foreign
    BY <1>k DEF SavepointView
  <2>2. Kept' = {Foreign : s \in savepoints}
    BY <2>1, <1>k DEF Kept
  <2> QED
    BY <2>2 DEF Kept
<1>1. ASSUME NEW helper \in BOOLEAN, Begin(helper) PROVE Tx!Next
  <2>1. \A s \in savepoints : s.activation_id # activation_id'
    BY <1>1, <1>t DEF Begin, TableInv, SavepointsAreNotNewer, SavepointType, TypeOK
  <2>2. Kept' = {Foreign : s \in Kept}
    BY <2>1, <1>k, <1>1 DEF Begin
  <2>3. candidate' = committed /\ required_references_candidate' = required_references
    BY <1>1, <1>t DEF Begin, candidate, required_references_candidate, Merge, NoOverlay,
       runtimeVars, TypeOK
  <2>4. Tx!Open
    BY <1>1, <2>2, <2>3 DEF Begin, Tx!Open, Tx!Void, Kept, Shown, runtimeVars
  <2> QED BY <2>4 DEF Tx!Next
<1>2. CASE Child
  <2>1. CASE state = "Open"
    <3>1. Kept' = Kept /\ candidate' = candidate
            /\ required_references_candidate' = required_references_candidate
      BY <1>2, <2>1 DEF Child, Mutation, Kept, SavepointView, Merge, candidate,
         required_references_candidate, runtimeVars, overlayVars, rootVars
    <3>2. Tx!Nest
      BY <1>2, <2>1, <3>1 DEF Child, Mutation, Tx!Nest, Kept, Shown, runtimeVars, overlayVars, rootVars
    <3> QED BY <3>2 DEF Tx!Next
  <2> QED BY <1>2, <2>1, <1>u, <1>t DEF Child, Mutation, TypeOK, States
<1>3. CASE ChildReturns
  <2>1. Kept' = Kept /\ candidate' = candidate
          /\ required_references_candidate' = required_references_candidate
    BY <1>3 DEF ChildReturns, Kept, SavepointView, Merge, candidate,
       required_references_candidate, runtimeVars, overlayVars, rootVars
  <2>2. Tx!Unnest
    BY <1>3, <2>1 DEF ChildReturns, Tx!Unnest, Kept, Shown, runtimeVars, overlayVars, rootVars
  <2> QED BY <2>2 DEF Tx!Next
<1>4. CASE Savepoint
  <2>1. CASE state = "Open"
    <3> DEFINE sp == SavepointOf(overlay, rekey_changes, required_reference_overlay, activation_id)
    <3>1. /\ savepoints' = savepoints \cup {sp}
          /\ UNCHANGED <<committed, required_references, state, activation_id>>
          /\ candidate' = candidate
          /\ required_references_candidate' = required_references_candidate
      BY <1>4, <2>1 DEF Savepoint, Mutation, Merge, candidate, required_references_candidate,
         runtimeVars, overlayVars, rootVars
    <3>2. SavepointView(sp) = [view |-> candidate, refs |-> required_references_candidate,
                               log |-> rekey_changes]
      BY <2>1 DEF SavepointView, SavepointOf, candidate, required_references_candidate
    <3>3. \A s : SavepointView(s)' = SavepointView(s)
      BY <3>1 DEF SavepointView, Merge
    <3>4. Kept' = Kept \cup {SavepointView(sp)}
      BY <3>1, <3>3 DEF Kept
    <3>5. Tx!Savepoint
      BY <1>4, <2>1, <3>1, <3>2, <3>4 DEF Savepoint, Mutation, Tx!Savepoint, Kept, Shown,
         runtimeVars, overlayVars, rootVars
    <3> QED BY <3>5 DEF Tx!Next
  <2> QED BY <1>4, <2>1, <1>u, <1>t DEF Savepoint, Mutation, TypeOK, States
<1>i. ASSUME Install, state' # "Open"
      PROVE  Tx!Install
  <2>1. state = "Open" /\ ~Dangling /\ committed' = candidate /\ required_references' = Installed
    BY <1>i DEF Install, Publishable
  <2>2. Installed = required_references_candidate
    BY <2>1, MergeTypes, <1>t DEF Installed, TableInv, ReferencesFollowRows
  <2>3. ~Tx!Dangling
    BY <2>1, <2>2 DEF Dangling, Tx!Dangling, Tx!Cells, Cells, Shown
  <2> QED BY <1>i, <2>1, <2>2, <2>3 DEF Tx!Install, Shown
<1>d. state = "Open" /\ ~Publishable => Tx!Dangling
  <2> SUFFICES ASSUME state = "Open", Dangling PROVE Tx!Dangling
    BY DEF Publishable
  <2>2. Installed = required_references_candidate
    BY MergeTypes, <1>t DEF Installed, TableInv, ReferencesFollowRows
  <2> QED BY <2>2 DEF Dangling, Tx!Dangling, Tx!Cells, Cells, Shown
<1>o. state # "None" /\ state # "Open" => state = "Committed" \/ state = "RolledBack"
  BY <1>t DEF TypeOK, States
<1>5. CASE Commit
  <2>1. CASE depth > 0 \/ helper_managed
    BY <1>5, <2>1, <1>r, <1>t DEF Commit, Tx!Commit, Tx!Next, TypeOK
  <2>2. CASE depth = 0 /\ ~helper_managed /\ Install /\ state' = "Committed"
    <3>1. Tx!Install /\ Kept' = {Foreign : s \in Kept}
      BY <2>2, <1>i, <1>k, <1>5 DEF Commit, PublishOpen, Publishable, Install, Refuse, rootVars
    <3>2. Tx!Commit
      BY <1>5, <2>2, <3>1 DEF Commit, PublishOpen, Refuse, Install, Publishable, Tx!Commit, Tx!Void,
         Kept, overlayVars, rootVars
    <3> QED BY <3>2 DEF Tx!Next
  <2>3. CASE depth = 0 /\ ~helper_managed /\ ~Publishable /\ Refuse(PublishError)
    <3>1. CASE state = "Open"
      BY <1>5, <2>3, <3>1, <1>d, <1>r DEF Commit, PublishError, Tx!Commit, Tx!Next
    <3>2. CASE state # "Open"
      BY <1>5, <2>3, <3>2, <1>o, <1>r DEF Commit, PublishError, Tx!Commit, Tx!Next
    <3> QED BY <3>1, <3>2
  <2> QED BY <1>5, <2>1, <2>2, <2>3, <1>t DEF Commit, PublishOpen, TypeOK
<1>6. CASE Rollback
  <2>1. CASE state # "Open"
    BY <1>6, <2>1, <1>r DEF Rollback, Tx!Rollback, Tx!Next
  <2>2. CASE state = "Open"
    <3>1. Kept' = {Foreign : s \in Kept}
      BY <1>6, <2>2, <1>k DEF Rollback
    <3>2. Tx!Rollback
      BY <1>6, <2>2, <3>1 DEF Rollback, Tx!Rollback, Tx!Discard, Tx!Void, Kept, Shown, ClearOverlay,
         runtimeVars
    <3> QED BY <3>2 DEF Tx!Next
  <2> QED BY <2>1, <2>2
<1>e. ASSUME NEW r, Destroyed(r) PROVE Tx!End(r)
  <2>1. Kept' = {Foreign : s \in Kept}
    BY <1>e, <1>k DEF Destroyed
  <2> QED BY <1>e, <2>1 DEF Destroyed, ClearOverlay, Tx!End, Tx!Void, Kept
<1>c. ASSUME NEW r, Destroyed(r), UNCHANGED runtimeVars PROVE Tx!Discard
  BY <1>c DEF Destroyed, Tx!Discard, Shown, runtimeVars
<1>7. CASE Drop
  BY <1>7, <1>e, <1>c DEF Drop, Tx!Drop, Tx!Next
<1>8. CASE OperationReturns
  <2>1. CASE Install /\ Destroyed("ok")
    BY <1>8, <2>1, <1>i, <1>e DEF OperationReturns, Destroyed, Tx!Finish, Tx!Next
  <2>2. CASE ~Publishable /\ Destroyed(PublishError) /\ UNCHANGED runtimeVars
    <3>1. Tx!Discard /\ Tx!End(PublishError)
      BY <2>2, <1>e, <1>c
    <3>2. CASE state = "Open"
      BY <1>8, <3>1, <3>2, <2>2, <1>d DEF OperationReturns, PublishError, Tx!Finish, Tx!Next
    <3>3. CASE state # "Open"
      BY <1>8, <3>1, <3>3, <1>o, <2>2 DEF OperationReturns, PublishError, Tx!Finish, Tx!Next,
         TableInv, HelperRootsStayUncommitted
    <3> QED BY <3>2, <3>3
  <2> QED BY <1>8, <2>1, <2>2 DEF OperationReturns
<1> QED
  BY <1>1, <1>2, <1>3, <1>4, <1>5, <1>6, <1>7, <1>8

(* An initial state maps to an initial state, a step to a step or a stutter. *)
LEMMA InitRefines == Init => Tx!Init
  BY DEF Init, Tx!Init, Tx!Cells, Cells, Shown

(* Every step is a step of the abstract activation, or none. *)
LEMMA NextRefines ==
  ASSUME TableInv, [Next]_vars
  PROVE  [Tx!Next]_(Tx!txVars)
<1>1. CASE UNCHANGED vars
  <2>1. UNCHANGED Tx!txVars
    BY <1>1 DEF vars, Tx!txVars, Shown, candidate, required_references_candidate, Merge,
       SavepointView, runtimeVars, overlayVars, rootVars
  <2> QED BY <2>1
<1>2. CASE state = "Open" /\ Next
  BY <1>2, LifeRefines, CallsRefine DEF Next
<1>3. CASE state # "Open" /\ Next
  <2>1. ASSUME state # "None", Refuse("UseAfterClose") PROVE Tx!Next
    <3>1. state \in {"Committed", "RolledBack"}
      BY <1>3, <2>1 DEF TableInv, TypeOK, States
    <3> QED BY <3>1, <2>1, RefusalRefines DEF Tx!Next, Tx!Reject
  <2>2. \A step : Mutation(step) => Tx!Next
    BY <1>3, <2>1 DEF Mutation
  <2> QED
    BY <1>3, <2>2, LifeRefines DEF Next, Insert, Update, UpdateWithReferences,
       SetRequiredReferences, Delete, Rekey, RollbackTo
<1> QED
  BY <1>1, <1>2, <1>3

(* An activation with an overlay behaves, results included, like one that  *)
(* works on a private copy and installs it at once or not at all.          *)
THEOREM OverlayImplementsCopy == Spec => ImplementsTransaction
  BY InitRefines, NextRefines, AlwaysTableInv, PTL DEF Spec, Tx!Spec, ImplementsTransaction

-----------------------------------------------------------------------------
(* The merge of a table.  A row is merged exactly, a segment taken by its  *)
(* digest holds rows that a merge of its keys would also have kept, and a  *)
(* table taken whole likewise; the merge above the rows adds no conflict.  *)

KeyRow == MergeRows \cup {Missing}

(* What the merge of one key owes to the three rows it has been given.     *)
Exact(automatic, b, l, r, row) ==
  /\ row # Conflict => /\ row \in RowsFrom(l, r)
                       /\ row \in MergedRows \cup {Missing}
                       /\ Keeps(b, l, row)
                       /\ Keeps(b, r, row)
  /\ row = Conflict => DoubleInsert(automatic, b, l, r) \/ Irreconcilable(b, l, r)

(* And of one key above the rows: two inserts under an automatic key are a *)
(* conflict unless the segment that holds them is the same on both sides.  *)
ExactAt(automatic, b, l, r, k, row) ==
  /\ Exact(automatic, b.rows[k], l.rows[k], r.rows[k], row)
  /\ DoubleInsert(automatic, b.rows[k], l.rows[k], r.rows[k]) =>
       (row = Conflict <=> ~EqualSegments(b, l, r, k))

(* A row of one side keeps the changes of that side. *)
LEMMA SideKeepsItself ==
  ASSUME NEW b, NEW l \in KeyRow
  PROVE  Keeps(b, l, l) /\ Keeps(l, l, b)
  BY DEF Keeps

(* Three rows merged field by field: the plan's row is made of the two     *)
(* sides' fields, or a field was changed on both sides to different values.*)
LEMMA FieldsMergeExactly ==
  ASSUME NEW automatic, NEW b \in MergeRows, NEW l \in MergeRows, NEW r \in MergeRows
  PROVE  /\ Exact(automatic, b, l, r, MergeRowFields(b, l, r))
         /\ MergeRowFields(b, l, r) = MergeRowFields(b, r, l)
<1> DEFINE row == [f \in MergeFields |-> MergeOptional(b[f], l[f], r[f])]
           left == {f \in MergeFields : l[f] = r[f] \/ r[f] = b[f]}
<1>1. b \in MergedRows /\ l \in MergedRows /\ r \in MergedRows /\ Missing \notin {b, l, r}
  BY RowAssumption
<1>2. CASE \E f \in MergeFields : Clash(b[f], l[f], r[f])
  <2>1. PICK f \in MergeFields : Clash(b[f], l[f], r[f])
    BY <1>2
  <2>2. MergeRowFields(b, l, r) = Conflict /\ MergeRowFields(b, r, l) = Conflict
    BY <2>1 DEF MergeRowFields, Clash
  <2>3. ASSUME NEW any, Keeps(b, l, any), Keeps(b, r, any)
        PROVE  FALSE
    BY <2>1, <2>3, <1>1 DEF Keeps, Clash
  <2> QED
    BY <2>2, <2>3 DEF Exact, Irreconcilable
<1>3. CASE ~\E f \in MergeFields : Clash(b[f], l[f], r[f])
  <2>1. MergeRowFields(b, l, r) = row
    BY <1>3 DEF MergeRowFields
  <2>2. \A f \in MergeFields : row[f] = (IF f \in left THEN l[f] ELSE r[f])
    BY DEF MergeOptional
  <2>3. row \in MergedRows
    BY <1>1, <2>2 DEF MergedRows
  <2>4. row = [f \in MergeFields |-> IF f \in left THEN l[f] ELSE r[f]]
    BY <2>2
  <2>5. row \in RowsFrom(l, r)
    <3>1. left \in SUBSET MergeFields
      OBVIOUS
    <3> HIDE DEF left, row
    <3>2. row \in {[f \in MergeFields |-> IF f \in some THEN l[f] ELSE r[f]] :
                     some \in SUBSET MergeFields}
      BY <3>1, <2>4
    <3> QED
      BY <3>2, <1>1, Zenon DEF RowsFrom
  <2>6. \A f \in MergeFields : /\ l[f] # b[f] => row[f] = l[f]
                               /\ r[f] # b[f] => row[f] = r[f]
    BY <1>3 DEF Clash, MergeOptional
  <2>7. Keeps(b, l, row) /\ Keeps(b, r, row)
    BY <2>6, <2>3, <1>1, RowAssumption DEF Keeps
  <2>8. MergeRowFields(b, r, l) = row
    <3>1. ~\E f \in MergeFields : Clash(b[f], r[f], l[f])
      BY <1>3 DEF Clash
    <3>2. \A f \in MergeFields :
            MergeOptional(b[f], r[f], l[f]) = MergeOptional(b[f], l[f], r[f])
      BY <1>3 DEF Clash, MergeOptional
    <3> QED
      BY <3>1, <3>2 DEF MergeRowFields
  <2>9. row # Conflict
    BY <2>3, RowAssumption
  <2> QED
    BY <2>1, <2>3, <2>5, <2>7, <2>8, <2>9 DEF Exact
<1> QED
  BY <1>2, <1>3

(* merge_keyed_row is exact, and does not tell the two sides apart. *)
LEMMA RowsMergeExactly ==
  ASSUME NEW automatic, NEW b \in KeyRow, NEW l \in KeyRow, NEW r \in KeyRow
  PROVE  /\ Exact(automatic, b, l, r, MergeKeyedRow(automatic, b, l, r))
         /\ DoubleInsert(automatic, b, l, r) => MergeKeyedRow(automatic, b, l, r) = Conflict
         /\ MergeKeyedRow(automatic, b, l, r) = MergeKeyedRow(automatic, b, r, l)
<1> DEFINE row == MergeKeyedRow(automatic, b, l, r)
<1>1. /\ Missing \notin MergeRows /\ Conflict \notin KeyRow
      /\ MergeRows \subseteq MergedRows
  BY RowAssumption DEF KeyRow
<1>2. CASE b = Missing
  <2>1. CASE r = Missing
    BY <1>1, <1>2, <2>1 DEF MergeKeyedRow, DoubleInsert, Exact, Keeps, RowsFrom, KeyRow
  <2>2. CASE r # Missing /\ l = Missing
    BY <1>1, <1>2, <2>2 DEF MergeKeyedRow, DoubleInsert, Exact, Keeps, RowsFrom, KeyRow
  <2>3. CASE r # Missing /\ l # Missing /\ (automatic \/ l # r)
    BY <1>1, <1>2, <2>3 DEF MergeKeyedRow, DoubleInsert, Exact, Keeps, Irreconcilable
  <2>4. CASE r # Missing /\ l # Missing /\ ~(automatic \/ l # r)
    BY <1>1, <1>2, <2>4 DEF MergeKeyedRow, DoubleInsert, Exact, Keeps, RowsFrom, KeyRow
  <2> QED
    BY <2>1, <2>2, <2>3, <2>4
<1>3. CASE b # Missing /\ Missing \in {l, r}
  <2>1. CASE {l, r} \subseteq {b, Missing}
    <3>1. MergeKeyedRow(automatic, b, l, r) = Missing /\ MergeKeyedRow(automatic, b, r, l) = Missing
      BY <1>3, <2>1 DEF MergeKeyedRow
    <3> QED
      BY <3>1, <1>3, <2>1, RowAssumption DEF Exact, DoubleInsert, Keeps, RowsFrom
  <2>2. CASE ~({l, r} \subseteq {b, Missing})
    <3>1. MergeKeyedRow(automatic, b, l, r) = Conflict /\ MergeKeyedRow(automatic, b, r, l) = Conflict
      BY <1>3, <2>2 DEF MergeKeyedRow
    <3>2. ASSUME NEW any, Keeps(b, l, any), Keeps(b, r, any)
          PROVE  FALSE
      BY <1>3, <2>2, <3>2 DEF Keeps
    <3> QED
      BY <3>1, <3>2, <1>3 DEF Exact, Irreconcilable, DoubleInsert
  <2> QED
    BY <2>1, <2>2
<1>4. CASE b # Missing /\ Missing \notin {l, r}
  <2>1. b \in MergeRows /\ l \in MergeRows /\ r \in MergeRows
    BY <1>4 DEF KeyRow
  <2> QED
    BY <1>4, <2>1, FieldsMergeExactly DEF MergeKeyedRow, DoubleInsert
<1> QED
  BY <1>2, <1>3, <1>4

(* Where one side left a key alone, or both agree, taking the other side's *)
(* row is exact, whatever a merge of the rows would have said.             *)
LEMMA TakenRowIsExact ==
  ASSUME NEW automatic, NEW b \in KeyRow, NEW l \in KeyRow, NEW r \in KeyRow
  PROVE  /\ l = r => Exact(automatic, b, l, r, l)
         /\ r = b => Exact(automatic, b, l, r, l)
         /\ l = b => Exact(automatic, b, l, r, r)
<1>1. l # Conflict /\ r # Conflict /\ {l, r} \subseteq MergedRows \cup {Missing}
  BY RowAssumption DEF KeyRow
<1>2. l \in RowsFrom(l, r) /\ r \in RowsFrom(l, r)
  BY DEF RowsFrom
<1> QED
  BY <1>1, <1>2, SideKeepsItself DEF Exact

(* merge_table above the rows: a segment or a range, key by key. *)
LEMMA SegmentsMergeExactly ==
  ASSUME NEW automatic, NEW b \in Manifests, NEW l \in Manifests, NEW r \in Manifests
  PROVE  /\ MergeRowsOf(automatic, b, l, r) = MergeRowsOf(automatic, b, r, l)
         /\ DOMAIN MergeRowsOf(automatic, b, l, r) = MergeKeys
         /\ MergeRowsOf(automatic, b, l, r) = [k \in MergeKeys |-> MergeRowsOf(automatic, b, l, r)[k]]
         /\ \A k \in MergeKeys :
              ExactAt(automatic, b, l, r, k, MergeRowsOf(automatic, b, l, r)[k])
<1>1. /\ b.rows \in [MergeKeys -> KeyRow] /\ l.rows \in [MergeKeys -> KeyRow]
      /\ r.rows \in [MergeKeys -> KeyRow] /\ b.layout \in Layouts
  BY DEF Manifests, KeyRow
<1>2. CASE Aligned(b, l, r)
  <2> DEFINE range(k) == SegmentOf(b.layout, k)
             seg(k) == MergeSegment(automatic, range(k), b.rows, l.rows, r.rows)
             swapped(k) == MergeSegment(automatic, range(k), b.rows, r.rows, l.rows)
  <2>1. /\ MergeRowsOf(automatic, b, l, r) = [k \in MergeKeys |-> seg(k)[k]]
        /\ MergeRowsOf(automatic, b, r, l) = [k \in MergeKeys |-> swapped(k)[k]]
    BY <1>2 DEF MergeRowsOf, Aligned
  <2>2. ASSUME NEW k \in MergeKeys
        PROVE  /\ seg(k)[k] = swapped(k)[k]
               /\ ExactAt(automatic, b, l, r, k, seg(k)[k])
    <3>1. k \in range(k)
      BY <1>1, LayoutAssumption DEF SegmentOf
    <3>2. EqualSegments(b, l, r, k) <=> Restrict(l.rows, range(k)) = Restrict(r.rows, range(k))
      BY <1>2 DEF EqualSegments
    <3> HIDE DEF range
    <3> DEFINE In(rows) == Restrict(rows, range(k))
    <3>3. /\ In(b.rows)[k] = b.rows[k] /\ In(l.rows)[k] = l.rows[k] /\ In(r.rows)[k] = r.rows[k]
          /\ DOMAIN In(b.rows) = range(k)
      BY <3>1 DEF Restrict
    <3>4. CASE In(l.rows) = In(r.rows)
      <4>1. seg(k)[k] = l.rows[k] /\ swapped(k)[k] = l.rows[k] /\ l.rows[k] = r.rows[k]
        BY <3>3, <3>4 DEF MergeSegment
      <4>2. l.rows[k] # Conflict
        BY <1>1, RowAssumption DEF KeyRow
      <4> QED
        BY <4>1, <4>2, <3>2, <3>4, <1>1, TakenRowIsExact DEF ExactAt
    <3>5. CASE In(l.rows) # In(r.rows) /\ In(l.rows) = In(b.rows)
      <4>1. seg(k)[k] = r.rows[k] /\ swapped(k)[k] = r.rows[k] /\ l.rows[k] = b.rows[k]
        BY <3>3, <3>5 DEF MergeSegment
      <4> QED
        BY <4>1, <1>1, TakenRowIsExact DEF ExactAt, DoubleInsert
    <3>6. CASE In(l.rows) # In(r.rows) /\ In(r.rows) = In(b.rows)
      <4>1. seg(k)[k] = l.rows[k] /\ swapped(k)[k] = l.rows[k] /\ r.rows[k] = b.rows[k]
        BY <3>3, <3>6 DEF MergeSegment
      <4> QED
        BY <4>1, <1>1, TakenRowIsExact DEF ExactAt, DoubleInsert
    <3>7. CASE In(l.rows) # In(r.rows) /\ In(l.rows) # In(b.rows) /\ In(r.rows) # In(b.rows)
      <4>1. /\ seg(k) = MergeRangeRows(automatic, In(b.rows), In(l.rows), In(r.rows))
            /\ swapped(k) = MergeRangeRows(automatic, In(b.rows), In(r.rows), In(l.rows))
        BY <3>7 DEF MergeSegment
      <4>2. /\ seg(k)[k] = MergeKeyedRow(automatic, b.rows[k], l.rows[k], r.rows[k])
            /\ swapped(k)[k] = MergeKeyedRow(automatic, b.rows[k], r.rows[k], l.rows[k])
        BY <4>1, <3>1, <3>3 DEF MergeRangeRows
      <4> QED
        BY <4>2, <3>2, <3>7, <1>1, RowsMergeExactly DEF ExactAt
    <3> QED
      BY <3>4, <3>5, <3>6, <3>7
  <2> HIDE DEF seg, swapped
  <2> QED
    BY <2>1, <2>2
<1>3. CASE ~Aligned(b, l, r)
  <2>1. /\ MergeRowsOf(automatic, b, l, r) = MergeRangeRows(automatic, b.rows, l.rows, r.rows)
        /\ MergeRowsOf(automatic, b, r, l) = MergeRangeRows(automatic, b.rows, r.rows, l.rows)
    BY <1>3 DEF MergeRowsOf, Aligned
  <2>2. /\ MergeRangeRows(automatic, b.rows, l.rows, r.rows)
             = [k \in MergeKeys |-> MergeKeyedRow(automatic, b.rows[k], l.rows[k], r.rows[k])]
        /\ MergeRangeRows(automatic, b.rows, r.rows, l.rows)
             = [k \in MergeKeys |-> MergeKeyedRow(automatic, b.rows[k], r.rows[k], l.rows[k])]
    BY <1>1 DEF MergeRangeRows
  <2>3. \A k \in MergeKeys :
          /\ ExactAt(automatic, b, l, r, k,
                     MergeKeyedRow(automatic, b.rows[k], l.rows[k], r.rows[k]))
          /\ MergeKeyedRow(automatic, b.rows[k], l.rows[k], r.rows[k])
               = MergeKeyedRow(automatic, b.rows[k], r.rows[k], l.rows[k])
    BY <1>1, <1>3, RowsMergeExactly DEF ExactAt, EqualSegments
  <2> QED
    BY <2>1, <2>2, <2>3
<1> QED
  BY <1>2, <1>3

(* merge_table is exact: by the whole table, by the segment and by the row. *)
LEMMA TablesMergeExactly ==
  ASSUME NEW m \in Merges
  PROVE  PlanIsExact(m)
<1> DEFINE a == m.automatic
           b == m.base
           l == m.left
           r == m.right
           plan == MergeTable(a, b, l, r)
           bs == Content(b)
           ls == Content(l)
           rs == Content(r)
           rows == MergeRowsOf(a, b, l, r)
           exactRows(map) == \A k \in MergeKeys : /\ map[k] \in RowsFrom(ls[k], rs[k])
                                                  /\ Keeps(bs[k], ls[k], map[k])
                                                  /\ Keeps(bs[k], rs[k], map[k])
<1>1. /\ {b, l, r} \subseteq Manifests \cup {Missing}
      /\ \A x \in Manifests : x.rows \in [MergeKeys -> KeyRow] /\ x # Missing
  BY ManifestAssumption DEF Merges, Manifests, KeyRow
<1>2. {bs, ls, rs} \subseteq [MergeKeys -> KeyRow]
  BY <1>1 DEF Content, KeyRow
<1>3. \A x \in Manifests : x.rows \notin {Missing, Conflict}
  <2>1. [MergeKeys -> KeyRow] \subseteq [MergeKeys -> MergedRows \cup {Missing}]
    BY RowAssumption DEF KeyRow
  <2> QED
    BY <1>1, <2>1, ManifestAssumption
<1>4. CASE l = r \/ r = b \/ l = b
  <2> DEFINE taken == IF l = r \/ r = b THEN l ELSE r
  <2>1. /\ plan = (IF taken = Missing THEN Missing ELSE taken.rows)
        /\ plan = MergeTable(a, b, r, l)
    BY <1>4 DEF MergeTable
  <2>2. taken # Missing => plan = Content(taken) /\ plan \notin {Missing, Conflict}
    BY <2>1, <1>1, <1>3 DEF Content
  <2>3. taken # Missing => exactRows(plan)
    <3>1. \A k \in MergeKeys : bs[k] \in KeyRow /\ ls[k] \in KeyRow /\ rs[k] \in KeyRow
      BY <1>2
    <3>2. CASE l = r \/ r = b
      <4>1. ls = rs \/ rs = bs
        BY <3>2
      <4>2. taken # Missing => plan = ls
        BY <2>2, <3>2
      <4>3. ASSUME NEW k \in MergeKeys
            PROVE  Exact(a, bs[k], ls[k], rs[k], ls[k]) /\ ls[k] # Conflict
        BY <3>1, <4>1, TakenRowIsExact, RowAssumption DEF KeyRow
      <4> HIDE DEF plan, ls, rs, bs, taken
      <4> QED
        BY <4>2, <4>3 DEF Exact
    <3>3. CASE ~(l = r \/ r = b)
      <4>1. ls = bs
        BY <3>3, <1>4
      <4>2. taken # Missing => plan = rs
        BY <2>2, <3>3
      <4>3. ASSUME NEW k \in MergeKeys
            PROVE  Exact(a, bs[k], ls[k], rs[k], rs[k]) /\ rs[k] # Conflict
        BY <3>1, <4>1, TakenRowIsExact, RowAssumption DEF KeyRow
      <4> HIDE DEF plan, ls, rs, bs, taken
      <4> QED
        BY <4>2, <4>3 DEF Exact
    <3> QED
      BY <3>2, <3>3
  <2>4. taken = Missing => plan = Missing /\ Missing \in {l, r} /\ {l, r} \subseteq {b, Missing}
    BY <2>1, <1>4
  <2>5. plan # Conflict
    BY <2>2, <2>4, RowAssumption
  <2>7. \A k \in MergeKeys : ~Collides(m, k)
    <3>1. CASE l = r
      BY <3>1 DEF Collides, EqualByDigest
    <3>2. CASE r = b \/ l = b
      BY <3>2 DEF Collides, DoubleInsert
    <3> QED
      BY <3>1, <3>2, <1>4
  <2> HIDE DEF plan, taken, bs, ls, rs
  <2>6. /\ plan \notin {Conflict, Missing} => exactRows(plan)
        /\ plan = Missing => Missing \in {l, r} /\ {l, r} \subseteq {b, Missing}
    BY <2>2, <2>3, <2>4
  <2> QED
    BY <2>1, <2>5, <2>6, <2>7 DEF PlanIsExact, plan, bs, ls, rs
<1>5. CASE ~(l = r \/ r = b \/ l = b) /\ Missing \in {b, l, r}
  <2>1. plan = Conflict /\ MergeTable(a, b, r, l) = Conflict
    BY <1>5 DEF MergeTable
  <2> QED
    BY <2>1, <1>5, RowAssumption DEF PlanIsExact
<1>6. CASE ~(l = r \/ r = b \/ l = b) /\ Missing \notin {b, l, r}
  <2>1. b \in Manifests /\ l \in Manifests /\ r \in Manifests
    BY <1>1, <1>6
  <2>2. bs = b.rows /\ ls = l.rows /\ rs = r.rows
    BY <1>6 DEF Content
  <2>3. /\ rows = MergeRowsOf(a, b, r, l)
        /\ DOMAIN rows = MergeKeys
        /\ rows = [k \in MergeKeys |-> rows[k]]
        /\ \A k \in MergeKeys : ExactAt(a, b, l, r, k, rows[k])
    BY <2>1, SegmentsMergeExactly
  <2>7. \A k \in MergeKeys :
          /\ Exact(a, bs[k], ls[k], rs[k], rows[k])
          /\ Collides(m, k) <=> DoubleInsert(a, bs[k], ls[k], rs[k]) /\ rows[k] = Conflict
    BY <2>2, <2>3, <1>6 DEF ExactAt, Collides, EqualByDigest
  <2>4. /\ plan = IF Conflict \in Range(rows) THEN Conflict ELSE rows
        /\ MergeTable(a, b, r, l) = plan
    BY <1>6, <2>3 DEF MergeTable
  <2>5. CASE Conflict \in Range(rows)
    <3>1. PICK k \in MergeKeys : rows[k] = Conflict
      BY <2>5, <2>3 DEF Range
    <3>2. Collides(m, k) \/ Irreconcilable(bs[k], ls[k], rs[k])
      BY <3>1, <2>7 DEF Exact
    <3> QED
      BY <2>4, <2>5, <3>2, RowAssumption DEF PlanIsExact
  <2>6. CASE Conflict \notin Range(rows)
    <3>1. \A k \in MergeKeys : rows[k] # Conflict
      BY <2>6, <2>3 DEF Range
    <3>2. exactRows(rows) /\ \A k \in MergeKeys : rows[k] \in MergedRows \cup {Missing}
      BY <3>1, <2>7 DEF Exact
    <3>3. rows \in [MergeKeys -> MergedRows \cup {Missing}]
      BY <3>2, <2>3
    <3>4. rows \notin {Missing, Conflict}
      BY <3>3, ManifestAssumption
    <3>5. \A k \in MergeKeys : ~Collides(m, k)
      BY <3>1, <2>7
    <3> HIDE DEF rows
    <3> QED
      BY <2>4, <2>6, <3>2, <3>4, <3>5 DEF PlanIsExact
  <2> QED
    BY <2>5, <2>6
<1> QED
  BY <1>4, <1>5, <1>6

(* Every merge of three manifests keeps the changes of both branches or    *)
(* refuses.  It refuses only rows that cannot be merged and two inserts    *)
(* under an automatic key, and all of the latter but those whose segments  *)
(* or tables are equal by digest.                                          *)
THEOREM MergesAreExact == MCSpec => []MergeIsExact
<1>1. MergeIsExact
  BY TablesMergeExactly DEF MergeIsExact
<1> QED
  BY <1>1, PTL
=============================================================================
