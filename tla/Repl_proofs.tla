----------------------------- MODULE Repl_proofs -----------------------------
(***************************************************************************)
(* What the user of the command loop knows, for any number of strings and  *)
(* of unanswered updates, and what the reading commands list, for any      *)
(* strings and any spread of the keys over memtable and SSTables.          *)
(*                                                                         *)
(* A listing is what is left of a sequence in the order of its keys.  That *)
(* there is only one such sequence for a set of keys and their values is   *)
(* what makes listings equal.                                              *)
(***************************************************************************)
EXTENDS Repl, Vectors_proofs

Value == Val \cup {Absent}

\* The update that a line asks for.
Updated(ln) == [key |-> ln.args[1],
                val |-> IF ln.cmd = "SET" THEN ln.args[2] ELSE Absent]

\* The map and the user's view of it hold what they should.
MapsOK ==
    /\ store \in [Key -> Value] /\ durable \in [Key -> Value]
    /\ may \in [Key -> SUBSET Value]

\* The update in progress is the one of the line, and the user, who gave the
\* line, reckons with it.
UpdateKnown ==
    phase = "update" =>
        /\ request = Updated(line) /\ request \in D!Update
        /\ request.val \in may[request.key]

\* OK is printed only for an update, and only when it can no longer be lost.
OkIsDurable ==
    phase = "print" /\ reply.say = "OK" =>
        /\ Updated(line) \in D!Update
        /\ store[line.args[1]] = Updated(line).val
        /\ durable[line.args[1]] = Updated(line).val

IInv == MapsOK /\ UserKnows /\ UpdateKnown /\ OkIsDurable

-----------------------------------------------------------------------------
\* What a line that updates the map asks for.
LEMMA UpdateLines ==
  ASSUME NEW ln \in GoodLines
  PROVE  /\ ln.cmd = "SET" => ln.args[1] \in Key /\ ln.args[2] \in Val
         /\ ln.cmd = "DELETE" => ln.args[1] \in Key
  BY DEF GoodLines

\* At first there is nothing, and nothing else to reckon with.
LEMMA InitIInv == Init => IInv
  BY DEF Init, D!Init, IInv, MapsOK, UserKnows, UpdateKnown, OkIsDurable, Value

\* The replies of the reading commands are not OK.
LEMMA ReadsSayNoOk ==
  ASSUME NEW ln, NEW layers,
         ln.cmd \in {"GET", "EXISTS", "KEYS", "RANGE", "PREFIX_SCAN"}
  PROVE  Answer(ln.cmd, ln.args, layers).say # "OK"
<1>1. CASE ln.cmd = "GET"
  BY <1>1 DEF Answer, Say, Scan
<1>2. CASE ln.cmd = "EXISTS"
  BY <1>2 DEF Answer, Say, Scan
<1>3. CASE ln.cmd = "KEYS"
  BY <1>3 DEF Answer, Say, Scan
<1>4. CASE ln.cmd = "RANGE"
  BY <1>4 DEF Answer, Say, Scan
<1>5. CASE ln.cmd = "PREFIX_SCAN"
  BY <1>5 DEF Answer, Say, Scan
<1> QED
  BY <1>1, <1>2, <1>3, <1>4, <1>5

\* Every step of the loop keeps the invariant.  An update enters it with the
\* line, and OK is printed when the map and its durable copy have the update.
LEMMA NextIInv == IInv /\ [Next]_vars => IInv'
<1> SUFFICES ASSUME IInv, [Next]_vars PROVE IInv'
  OBVIOUS
<1> USE DEF IInv
<1>1. /\ store \in [Key -> Value] /\ durable \in [Key -> Value]
      /\ may \in [Key -> SUBSET Value]
      /\ \A k \in Key : store[k] \in may[k] /\ durable[k] \in may[k]
  BY DEF MapsOK, UserKnows
\* Steps that leave the maps and what the user reckons with.
<1>2. ASSUME UNCHANGED <<mapVars, may>>, phase' # "update",
             phase' = "print" => reply'.say # "OK"
      PROVE  IInv'
  BY <1>2 DEF mapVars, MapsOK, UserKnows, UpdateKnown, OkIsDurable
<1>3. CASE Start
  BY <1>2, <1>3 DEF Start
<1>4. CASE Exit
  BY <1>2, <1>4 DEF Exit, Ended, D!Crash, MapsOK, UserKnows, UpdateKnown, OkIsDurable
<1>5. CASE Reject
  <2>1. reply' = Say("ERROR", <<>>) /\ phase' = "print" /\ UNCHANGED <<mapVars, may>>
    BY <1>5 DEF Reject, Prints
  <2>2. reply'.say # "OK"
    BY <2>1 DEF Say
  <2> QED
    BY <1>2, <2>1, <2>2
<1>6. CASE Read
  <2>1. PICK layers \in Layers, ln \in GoodLines :
           /\ ln.cmd \in {"GET", "EXISTS", "KEYS", "RANGE", "PREFIX_SCAN"}
           /\ Prints(ln, Answer(ln.cmd, ln.args, layers))
    BY <1>6 DEF Read
  <2>2. reply'.say # "OK" /\ phase' = "print"
    BY <2>1, ReadsSayNoOk DEF Prints
  <2> QED
    BY <1>2, <1>6, <2>2 DEF Read
<1>7. CASE Compact
  <2>1. PICK what \in {"COMPACTION SUCCESSFUL", "ERROR"} :
           reply' = Say(what, <<>>) /\ phase' = "print"
    BY <1>7 DEF Compact, Prints
  <2>2. reply'.say # "OK"
    BY <2>1 DEF Say
  <2> QED
    BY <1>2, <1>7, <2>1, <2>2 DEF Compact
\* A line that gives k the value v, which the user now reckons with.
<1>8. ASSUME NEW k \in Key, NEW v \in Value, Doubt(k, v)
      PROVE  /\ may' \in [Key -> SUBSET Value]
             /\ \A q \in Key : may[q] \in SUBSET may'[q]
             /\ v \in may'[k]
  BY <1>1, <1>8 DEF Doubt
<1>9. ASSUME NEW ln, Updated(ln) \in D!Update,
             BeginUpdate(ln, ln.args[1], Updated(ln).val), Doubt(ln.args[1], Updated(ln).val)
      PROVE  IInv'
  <2>1. /\ request' = Updated(ln) /\ UNCHANGED <<store, durable>>
        /\ line' = ln /\ phase' = "update"
    BY <1>9 DEF BeginUpdate, D!Begin, Updated
  <2>2. ln.args[1] \in Key /\ Updated(ln).val \in Value
    BY <1>9 DEF Updated, D!Update, Value
  <2>3. /\ may' \in [Key -> SUBSET Value]
        /\ \A q \in Key : may[q] \in SUBSET may'[q]
        /\ Updated(ln).val \in may'[ln.args[1]]
    BY <1>8, <1>9, <2>2
  <2>4. MapsOK' /\ UserKnows'
    BY <1>1, <2>1, <2>3 DEF MapsOK, UserKnows
  <2>5. UpdateKnown'
    BY <1>9, <2>1, <2>3 DEF UpdateKnown, Updated
  <2> QED
    BY <2>1, <2>4, <2>5 DEF OkIsDurable
<1>10. CASE Set
  <2>1. PICK ln \in GoodLines :
           /\ ln.cmd = "SET"
           /\ Doubt(ln.args[1], ln.args[2])
           /\ BeginUpdate(ln, ln.args[1], ln.args[2])
    BY <1>10 DEF Set
  <2>2. Updated(ln) \in D!Update /\ Updated(ln).val = ln.args[2]
    BY <2>1, UpdateLines DEF Updated, D!Update
  <2> QED
    BY <1>9, <2>1, <2>2
<1>11. CASE Delete
  <2>1. PICK ln \in GoodLines :
           /\ ln.cmd = "DELETE"
           /\ Doubt(ln.args[1], Absent)
           /\ IF Found(ln.args[1]) THEN BeginUpdate(ln, ln.args[1], Absent)
              ELSE Prints(ln, Say("NOT_FOUND", <<>>)) /\ UNCHANGED mapVars
    BY <1>11 DEF Delete
  <2>2. Updated(ln) \in D!Update /\ Updated(ln).val = Absent /\ ln.args[1] \in Key
    BY <2>1, UpdateLines DEF Updated, D!Update
  <2>3. CASE Found(ln.args[1])
    BY <1>9, <2>1, <2>2, <2>3
  <2>4. CASE ~Found(ln.args[1])
    <3>1. phase' = "print" /\ reply'.say = "NOT_FOUND" /\ UNCHANGED mapVars
      BY <2>1, <2>4 DEF Prints, Say
    <3>2. may' \in [Key -> SUBSET Value] /\ \A q \in Key : may[q] \in SUBSET may'[q]
      BY <1>8, <2>1, <2>2 DEF Value
    <3> QED
      BY <1>1, <3>1, <3>2 DEF mapVars, MapsOK, UserKnows, UpdateKnown, OkIsDurable
  <2> QED
    BY <2>3, <2>4
<1>12. CASE UpdateStep
  <2>1. /\ phase = "update" /\ phase' = "update" /\ UNCHANGED <<durable, request, line, may>>
        /\ store' = [store EXCEPT ![request.key] = request.val]
    BY <1>12 DEF UpdateStep, D!Take
  <2>2. request.key \in Key /\ request.val \in Value /\ request.val \in may[request.key]
    BY <2>1 DEF UpdateKnown, D!Update, Value
  <2>3. store' \in [Key -> Value] /\ \A k \in Key : store'[k] \in may[k]
    BY <1>1, <2>1, <2>2
  <2> QED
    BY <1>1, <2>1, <2>3 DEF MapsOK, UserKnows, UpdateKnown, OkIsDurable
<1>13. CASE UpdateEnds
  <2>1. /\ phase = "update" /\ phase' = "print" /\ UNCHANGED <<store, line, may>>
        /\ store[request.key] = request.val /\ durable' = store
    BY <1>13 DEF UpdateEnds, D!End, Prints
  <2>2. request = Updated(line) /\ Updated(line) \in D!Update
    BY <2>1 DEF UpdateKnown
  <2>3. store[line.args[1]] = Updated(line).val
    BY <2>1, <2>2 DEF Updated
  <2>4. OkIsDurable'
    BY <2>1, <2>2, <2>3 DEF OkIsDurable, Updated
  <2> QED
    BY <1>1, <2>1, <2>4 DEF MapsOK, UserKnows, UpdateKnown
<1>14. CASE Shown
  <2>1. phase = "print" /\ phase' = "prompt" /\ UNCHANGED mapVars
    BY <1>14 DEF Shown
  <2>2. CASE reply.say # "OK"
    BY <1>2, <1>14, <2>1, <2>2 DEF Shown
  <2>3. CASE reply.say = "OK"
    <3>1. /\ Updated(line) \in D!Update
          /\ store[line.args[1]] = Updated(line).val
          /\ durable[line.args[1]] = Updated(line).val
      BY <2>1, <2>3 DEF OkIsDurable
    <3>2. line.args[1] \in Key /\ Updated(line).val \in Value
      BY <3>1 DEF Updated, D!Update, Value
    <3>3. may' = [may EXCEPT ![line.args[1]] = {Updated(line).val}]
      BY <1>14, <2>3 DEF Shown, Updated
    <3>4. may' \in [Key -> SUBSET Value]
      BY <1>1, <3>2, <3>3
    <3>5. \A k \in Key : store[k] \in may'[k] /\ durable[k] \in may'[k]
      BY <1>1, <3>1, <3>2, <3>3
    <3> QED
      BY <1>1, <2>1, <3>4, <3>5 DEF mapVars, MapsOK, UserKnows, UpdateKnown, OkIsDurable
  <2> QED
    BY <2>2, <2>3
<1>15. CASE Crash
  BY <1>1, <1>15 DEF Crash, D!Crash, Ended, MapsOK, UserKnows, UpdateKnown, OkIsDurable
<1>16. CASE PowerLoss
  BY <1>1, <1>16 DEF PowerLoss, D!PowerLoss, Ended, MapsOK, UserKnows, UpdateKnown, OkIsDurable
<1>17. CASE Persist
  BY <1>1, <1>17 DEF Persist, D!Persist, MapsOK, UserKnows, UpdateKnown, OkIsDurable
<1>18. CASE UNCHANGED vars
  BY <1>18 DEF vars, mapVars, MapsOK, UserKnows, UpdateKnown, OkIsDurable
<1> QED
  BY <1>3, <1>4, <1>5, <1>6, <1>7, <1>10, <1>11, <1>12, <1>13, <1>14, <1>15, <1>16, <1>17,
     <1>18 DEF Next

\* The command loop stays within IInv.
LEMMA Inductive == Spec => []IInv
  BY InitIInv, NextIInv, PTL DEF Spec

\* A key has the value of its last update that was answered OK, or of one that
\* was given since and not answered: after any crashes, power losses and
\* rejected lines, for the process at hand and for any that comes.
THEOREM UserIsRight == Spec => []UserKnows
<1>1. IInv => UserKnows
  BY DEF IInv
<1> QED
  BY <1>1, Inductive, PTL

\* Whoever reads OK may rely on it: while it is printed, the map has the update
\* and a power loss would not undo it.
THEOREM OkIsNeverLost == Spec => []OkIsDurable
<1>1. IInv => OkIsDurable
  BY DEF IInv
<1> QED
  BY <1>1, Inductive, PTL

-----------------------------------------------------------------------------
(* Maps as sequences.                                                      *)

\* The keys of K in their order, with what g has for them.
Sorted(K, g) ==
    LET keys == InOrder(K) IN [n \in DOMAIN keys |-> [key |-> keys[n], val |-> g[keys[n]]]]

\* s, which has N elements, is that sequence.
Lists(s, N, K, g) ==
    /\ N \in Nat /\ s = [n \in 1..N |-> s[n]]
    /\ \A n \in 1..N : s[n].key \in K /\ s[n] = [key |-> s[n].key, val |-> g[s[n].key]]
    /\ \A m, n \in 1..N : m < n => s[m].key < s[n].key
    /\ \A k \in K : \E n \in 1..N : s[n].key = k

\* Sorted is that sequence.
LEMMA SortedLists ==
  ASSUME NEW K \in SUBSET Key, NEW g
  PROVE  Lists(Sorted(K, g), Cardinality(K), K, g)
<1> DEFINE N == Cardinality(K)
           keys == InOrder(K)
           s == [n \in 1..N |-> [key |-> keys[n], val |-> g[keys[n]]]]
<1>1. K \in SUBSET Nat /\ IsFiniteSet(K)
  BY WordAssumption, StringAssumption, FS_Subset
<1>2. /\ N \in Nat /\ keys \in [1..N -> K]
      /\ \A m, n \in 1..N : m < n => keys[m] < keys[n]
      /\ \A x \in K : \E n \in 1..N : keys[n] = x
  BY <1>1, InOrderIs
<1>3. Sorted(K, g) = s
  <2> HIDE DEF N, keys
  <2>1. DOMAIN keys = 1..N
    BY <1>2
  <2> QED
    BY <2>1 DEF Sorted, keys
<1> HIDE DEF N, keys
<1>4. \A n \in 1..N : s[n] = [key |-> keys[n], val |-> g[keys[n]]] /\ s[n].key = keys[n] /\ keys[n] \in K
  BY <1>1, <1>2
<1>5. s = [n \in 1..N |-> s[n]]
  OBVIOUS
<1> HIDE DEF s
<1>6. Lists(s, N, K, g)
  BY <1>2, <1>4, <1>5 DEF Lists
<1> QED
  BY <1>3, <1>6 DEF N

\* There is only one such sequence.
LEMMA ListsOnly ==
  ASSUME NEW K \in SUBSET Key, NEW g, NEW N, NEW s, Lists(s, N, K, g)
  PROVE  s = Sorted(K, g)
<1> DEFINE keys == [n \in 1..N |-> s[n].key]
<1>1. K \in SUBSET Nat /\ N \in Nat
  BY WordAssumption, StringAssumption DEF Lists
<1>2. keys \in [1..N -> K] /\ \A n \in 1..N : keys[n] = s[n].key
  BY DEF Lists
<1> HIDE DEF keys
<1>3. InOrder(K) = keys
  BY <1>1, <1>2, InOrderIsOnly DEF Lists
<1>4. Sorted(K, g) = [n \in 1..N |-> [key |-> keys[n], val |-> g[keys[n]]]]
  BY <1>2, <1>3 DEF Sorted
<1>5. \A n \in 1..N : s[n] = [key |-> keys[n], val |-> g[keys[n]]]
  BY <1>2 DEF Lists
<1>6. s = [n \in 1..N |-> s[n]]
  BY DEF Lists
<1> QED
  BY <1>4, <1>5, <1>6

\* What it is for lemmas about sequences.
LEMMA ListsSeq ==
  ASSUME NEW K \in SUBSET Key, NEW g, NEW N, NEW s, Lists(s, N, K, g),
         NEW S, \A k \in K : g[k] \in S
  PROVE  s \in Seq([key : K, val : S]) /\ Len(s) = N /\ DOMAIN s = 1..N
<1>1. N \in Nat /\ s = [n \in 1..N |-> s[n]]
  BY DEF Lists
<1>2. \A n \in 1..N : s[n] \in [key : K, val : S]
  <2> SUFFICES ASSUME NEW n \in 1..N PROVE s[n] \in [key : K, val : S]
    OBVIOUS
  <2>1. PICK k \in K : k = s[n].key
    BY DEF Lists
  <2>2. s[n] = [key |-> k, val |-> g[k]]
    BY <2>1 DEF Lists
  <2> QED
    BY <2>2
<1> DEFINE P == [key : K, val : S]
<1> HIDE DEF P
<1>3. s \in [1..N -> P]
  BY <1>1, <1>2 DEF P
<1>4. s \in Seq(P) /\ Len(s) = N /\ DOMAIN s = 1..N
  BY <1>1, <1>3
<1> QED
  BY <1>4 DEF P

\* What is left of it if only some keys are.
LEMMA OnlySorted ==
  ASSUME NEW K \in SUBSET Key, NEW g, NEW good
  PROVE  Only(Sorted(K, g), good) = Sorted(K \cap good, g)
<1> DEFINE s == Sorted(K, g)
           N == Cardinality(K)
           places == {n \in DOMAIN s : s[n].key \in good}
           M == Cardinality(places)
           at == InOrder(places)
           t == [n \in 1..M |-> s[at[n]]]
<1>0. Lists(s, N, K, g)
  BY SortedLists
<1> HIDE DEF s, N
<1>1. /\ N \in Nat /\ s = [n \in 1..N |-> s[n]]
      /\ \A n \in 1..N : s[n].key \in K /\ s[n] = [key |-> s[n].key, val |-> g[s[n].key]]
      /\ \A m, n \in 1..N : m < n => s[m].key < s[n].key
      /\ \A k \in K : \E n \in 1..N : s[n].key = k
  BY <1>0 DEF Lists
<1>2. DOMAIN s = 1..N
  BY <1>1
<1>3. /\ M \in Nat /\ at \in [1..M -> places]
      /\ \A m, n \in 1..M : m < n => at[m] < at[n]
      /\ \A x \in places : \E n \in 1..M : at[n] = x
  <2>1. places \in SUBSET (1..N)
    BY <1>2
  <2>2. IsFiniteSet(1..N)
    <3>1. 1 \in Int /\ N \in Int
      BY <1>1
    <3> QED
      BY <3>1, FS_Interval
  <2> HIDE DEF places
  <2>3. places \in SUBSET Nat
    BY <2>1
  <2>4. IsFiniteSet(places)
    BY <2>1, <2>2, FS_Subset
  <2> QED
    BY <2>3, <2>4, InOrderIs
<1>4. Only(s, good) = t
  <2> HIDE DEF places
  <2>1. DOMAIN at = 1..M
    BY <1>3
  <2>2. Picked(s, places) = [n \in DOMAIN at |-> s[at[n]]]
    BY DEF Picked
  <2> QED
    BY <2>1, <2>2 DEF Only, places
<1>5. \A n \in 1..M : at[n] \in 1..N /\ s[at[n]].key \in good
  BY <1>2, <1>3
<1> HIDE DEF M, at
<1>6. \A n \in 1..M : t[n] = s[at[n]]
  OBVIOUS
<1>7. t = [n \in 1..M |-> t[n]]
  OBVIOUS
<1> HIDE DEF t
<1>8. \A n \in 1..M : t[n].key \in K \cap good /\ t[n] = [key |-> t[n].key, val |-> g[t[n].key]]
  <2> SUFFICES ASSUME NEW n \in 1..M
               PROVE  t[n].key \in K \cap good /\ t[n] = [key |-> t[n].key, val |-> g[t[n].key]]
    OBVIOUS
  <2>1. PICK i \in 1..N : i = at[n] /\ s[i].key \in good /\ t[n] = s[i]
    BY <1>5, <1>6
  <2> QED
    BY <1>1, <2>1
<1>9. ASSUME NEW m \in 1..M, NEW n \in 1..M, m < n PROVE t[m].key < t[n].key
  <2> HIDE DEF places
  <2>1. at[m] < at[n] /\ at[m] \in 1..N /\ at[n] \in 1..N
    BY <1>3, <1>5, <1>9
  <2>2. s[at[m]].key < s[at[n]].key
    BY <1>1, <2>1
  <2> QED
    BY <1>6, <2>2
<1>10. ASSUME NEW k \in K \cap good PROVE \E n \in 1..M : t[n].key = k
  <2>1. PICK i \in 1..N : s[i].key = k
    BY <1>1
  <2>2. i \in places
    BY <1>2, <2>1
  <2>3. PICK n \in 1..M : at[n] = i
    BY <1>3, <2>2
  <2> QED
    BY <1>6, <2>1, <2>3
<1>11. Lists(t, M, K \cap good, g)
  <2> HIDE DEF places
  <2> QED
    BY <1>3, <1>7, <1>8, <1>9, <1>10 DEF Lists
<1>12. t = Sorted(K \cap good, g)
  BY <1>11, ListsOnly
<1> QED
  BY <1>4, <1>12 DEF s

\* Only the values of those keys matter.
LEMMA SortedSame ==
  ASSUME NEW K \in SUBSET Key, NEW g, NEW h, \A k \in K : g[k] = h[k]
  PROVE  Sorted(K, g) = Sorted(K, h)
<1> DEFINE N == Cardinality(K)
           s == Sorted(K, g)
<1>1. Lists(s, N, K, g)
  BY SortedLists
<1> HIDE DEF s, N
<1>2. Lists(s, N, K, h)
  BY <1>1 DEF Lists
<1>3. s = Sorted(K, h)
  BY <1>2, ListsOnly
<1> QED
  BY <1>3 DEF s

\* The loops leave the keys in a range, or those with a prefix.
LEMMA LoopsLeave ==
  ASSUME NEW K \in SUBSET Key, NEW g, NEW from \in Str
  PROVE  /\ PrefixLoop(Sorted(K, g), from) = Sorted(K \cap WithPrefix(from), g)
         /\ \A to \in Str : RangeLoop(Sorted(K, g), from, to)
                               = Sorted(K \cap {k \in Str : from <= k /\ k <= to}, g)
<1> DEFINE s == Sorted(K, g)
           N == Cardinality(K)
           S == {g[k] : k \in K}
           P == [key : K, val : S]
<1>1. Lists(s, N, K, g)
  BY SortedLists
<1>2. \A k \in K : g[k] \in S
  OBVIOUS
<1> HIDE DEF s, N, S
<1>3. s \in Seq(P) /\ Len(s) = N /\ DOMAIN s = 1..N
  BY <1>1, <1>2, ListsSeq
<1>4. from \in Nat /\ \A k \in Str : k \in Nat
  BY StringAssumption
<1>5. /\ \A n \in 1..Len(s) : s[n].key \in Nat /\ s[n].key \in Str
      /\ \A m, n \in 1..Len(s) : m < n => s[m].key < s[n].key
  <2>1. \A k \in K : k \in Str /\ k \in Nat
    BY WordAssumption, StringAssumption
  <2> QED
    BY <1>1, <1>3, <2>1 DEF Lists
<1> HIDE DEF P
<1>6. PrefixLoop(s, from) = Only(s, WithPrefix(from))
  <2>1. /\ \A k \in Str : k \in WithPrefix(from) => from <= k
        /\ \A k, l \in Str : from <= k /\ k < l /\ l \in WithPrefix(from) => k \in WithPrefix(from)
    BY StringAssumption, PrefixedTogether DEF WithPrefix
  <2>2. While(s, LowerBound(s, from), WithPrefix(from)) =
           Picked(s, {n \in DOMAIN s : from <= s[n].key /\ s[n].key \in WithPrefix(from)})
    BY <1>3, <1>4, <1>5, <2>1, LoopReads
  <2>3. {n \in DOMAIN s : from <= s[n].key /\ s[n].key \in WithPrefix(from)} =
           {n \in DOMAIN s : s[n].key \in WithPrefix(from)}
    BY <1>3, <1>5, <2>1
  <2> QED
    BY <2>2, <2>3 DEF PrefixLoop, Only
<1>7. ASSUME NEW to \in Str
      PROVE  RangeLoop(s, from, to) = Only(s, {k \in Str : from <= k /\ k <= to})
  <2> DEFINE range == {k \in Str : from <= k /\ k <= to}
  <2>1. \A k, l \in Str : from <= k /\ k < l /\ l \in UpTo(to) => k \in UpTo(to)
    BY <1>4 DEF UpTo
  <2>2. While(s, LowerBound(s, from), UpTo(to)) =
           Picked(s, {n \in DOMAIN s : from <= s[n].key /\ s[n].key \in UpTo(to)})
    BY <1>3, <1>4, <1>5, <2>1, LoopReads
  <2>3. {n \in DOMAIN s : from <= s[n].key /\ s[n].key \in UpTo(to)} =
           {n \in DOMAIN s : s[n].key \in range}
    BY <1>3, <1>5 DEF UpTo
  <2> QED
    BY <2>2, <2>3 DEF RangeLoop, Only
<1> QED
  BY <1>6, <1>7, OnlySorted DEF s

\* has_value() leaves the keys that are not dead.
LEMMA LiveSorted ==
  ASSUME NEW K \in SUBSET Key, NEW g
  PROVE  Live(Sorted(K, g)) = Sorted({k \in K : g[k] # Tomb}, g)
<1> DEFINE s == Sorted(K, g)
           N == Cardinality(K)
           live == {k \in K : g[k] # Tomb}
<1>1. Lists(s, N, K, g)
  BY SortedLists
<1> HIDE DEF s, N
<1>2. DOMAIN s = 1..N
  BY <1>1 DEF Lists
<1>3. \A n \in 1..N : s[n].key \in K /\ s[n].val = g[s[n].key]
  <2> SUFFICES ASSUME NEW n \in 1..N PROVE s[n].key \in K /\ s[n].val = g[s[n].key]
    OBVIOUS
  <2>1. s[n].key \in K /\ s[n] = [key |-> s[n].key, val |-> g[s[n].key]]
    BY <1>1 DEF Lists
  <2> QED
    BY <2>1
<1>4. {n \in DOMAIN s : s[n].val # Tomb} = {n \in DOMAIN s : s[n].key \in live}
  BY <1>2, <1>3
<1>5. Live(s) = Only(s, live)
  BY <1>4 DEF Live, Only
<1>6. Only(s, live) = Sorted(K \cap live, g)
  BY OnlySorted DEF s
<1>7. K \cap live = live
  OBVIOUS
<1> QED
  BY <1>5, <1>6, <1>7 DEF s

\* A merge gives the records for the keys that the memtable has not.
LEMMA Merged ==
  ASSUME NEW T \in SUBSET Key, NEW mem, NEW table
  PROVE  MergeInto(mem, Sorted(T, table)) =
            [k \in Key |-> IF k \in T /\ mem[k] = Absent THEN table[k] ELSE mem[k]]
<1> DEFINE s == Sorted(T, table)
           N == Cardinality(T)
           given == {n \in DOMAIN s : mem[s[n].key] = Absent}
           pick(k) == CHOOSE n \in given : s[n].key = k
<1>1. Lists(s, N, T, table)
  BY SortedLists
<1> HIDE DEF s, N
<1>2. DOMAIN s = 1..N
  BY <1>1 DEF Lists
<1>3. ASSUME NEW k \in Key
      PROVE  (IF \E n \in given : s[n].key = k THEN s[pick(k)].val ELSE mem[k])
                = IF k \in T /\ mem[k] = Absent THEN table[k] ELSE mem[k]
  <2>1. (\E n \in given : s[n].key = k) <=> k \in T /\ mem[k] = Absent
    BY <1>1, <1>2 DEF Lists
  <2>2. CASE \E n \in given : s[n].key = k
    <3>1. pick(k) \in given /\ s[pick(k)].key = k
      BY <2>2
    <3> HIDE DEF pick
    <3>2. s[pick(k)] = [key |-> s[pick(k)].key, val |-> table[s[pick(k)].key]]
      BY <1>1, <1>2, <3>1 DEF Lists
    <3>3. s[pick(k)].val = table[k]
      BY <3>1, <3>2
    <3> QED
      BY <2>1, <2>2, <3>3
  <2>3. CASE ~ \E n \in given : s[n].key = k
    BY <2>1, <2>3
  <2> QED
    BY <2>2, <2>3
<1>4. MergeInto(mem, s) = [k \in Key |->
         IF \E n \in given : s[n].key = k THEN s[pick(k)].val ELSE mem[k]]
  BY DEF MergeInto
<1> HIDE DEF given, pick
<1> QED
  BY <1>3, <1>4 DEF s

-----------------------------------------------------------------------------
(* What the reading commands answer.                                       *)

\* The keys that a map has.
Kept(m) == {k \in Key : m[k] # Absent}

\* The entries of a map, and a listing of it, in these terms.
LEMMA EntriesSorted == ASSUME NEW m PROVE Entries(m) = Sorted(Kept(m), m)
  BY DEF Entries, Sorted, Kept

LEMMA ListingIs == ASSUME NEW keys PROVE Listing(keys) = Sorted(Kept(store) \cap keys, store)
<1>1. Kept(store) \in SUBSET Key
  BY DEF Kept
<1> QED
  BY <1>1, EntriesSorted, OnlySorted DEF Listing

\* The two maps that layers stand for.
MemOf(layers)   == [k \in Key |-> layers[k][1]]
TableOf(layers) == [k \in Key |-> layers[k][2]]

\* What a scan works with, when it reads the keys of some set.
MergedOf(layers, keys) ==
    MergeInto(MemOf(layers), Sorted(Kept(TableOf(layers)) \cap keys, TableOf(layers)))

\* It comes to what the map has for these keys.
LEMMA ScanIs ==
  ASSUME NEW layers \in Layers, NEW keys
  PROVE  Live(Sorted(Kept(MergedOf(layers, keys)) \cap keys, MergedOf(layers, keys)))
            = Listing(keys)
<1> DEFINE m == MergedOf(layers, keys)
           T == Kept(TableOf(layers)) \cap keys
           K == Kept(m) \cap keys
           live == {k \in K : m[k] # Tomb}
           all == Kept(store) \cap keys
<1>1. \A k \in Key : Seen(layers[k]) = store[k]
  BY DEF Layers
<1>2. T \in SUBSET Key /\ K \in SUBSET Key /\ live \in SUBSET Key
  BY DEF Kept
<1>3. m = [k \in Key |-> IF k \in T /\ MemOf(layers)[k] = Absent THEN TableOf(layers)[k]
                         ELSE MemOf(layers)[k]]
  BY <1>2, Merged DEF MergedOf
<1>4. ASSUME NEW k \in Key, k \in keys
      PROVE  m[k] = IF layers[k][1] # Absent THEN layers[k][1] ELSE layers[k][2]
  <2>1. k \in T <=> layers[k][2] # Absent
    BY <1>4 DEF Kept, TableOf
  <2>2. MemOf(layers)[k] = layers[k][1] /\ TableOf(layers)[k] = layers[k][2]
    BY DEF MemOf, TableOf
  <2> HIDE DEF T, m
  <2> QED
    BY <1>3, <2>1, <2>2
<1>5. ASSUME NEW k \in Key, k \in keys
      PROVE  store[k] = IF m[k] = Tomb THEN Absent ELSE m[k]
  <2> HIDE DEF m
  <2> QED
    BY <1>1, <1>4, <1>5 DEF Seen
<1>6. live = all
  <2> HIDE DEF m
  <2> QED
    BY <1>5, CellAssumption DEF Kept
<1>7. \A k \in live : m[k] = store[k]
  <2> HIDE DEF m
  <2> QED
    BY <1>5 DEF Kept
<1>8. Live(Sorted(K, m)) = Sorted(live, m)
  BY <1>2, LiveSorted
<1>9. Sorted(live, m) = Sorted(live, store)
  <2> HIDE DEF m, live
  <2> QED
    BY <1>2, <1>7, SortedSame
<1> QED
  BY <1>6, <1>8, <1>9, ListingIs

\* range() swaps its arguments if the first is above the second.
LEMMA SwappedIs ==
  ASSUME NEW a \in Str, NEW b \in Str
  PROVE  /\ Min(ToSet(<<a, b>>)) \in Str
         /\ Max(ToSet(<<a, b>>)) \in Str
         /\ {k \in Str : Min(ToSet(<<a, b>>)) <= k /\ k <= Max(ToSet(<<a, b>>))} = Between(a, b)
<1>1. a \in Nat /\ b \in Nat /\ \A k \in Str : k \in Nat
  BY StringAssumption
<1>2. ToSet(<<a, b>>) = {a, b}
  BY DEF ToSet
<1>3. Min({a, b}) \in {a, b} /\ \A x \in {a, b} : Min({a, b}) <= x
  BY <1>1, MinIsLeast
<1>4. Max({a, b}) = IF a <= b THEN b ELSE a
  BY <1>1, MaxIs
<1>5. Min({a, b}) = IF a <= b THEN a ELSE b
  BY <1>1, <1>3
<1>6. Min({a, b}) \in Str /\ Max({a, b}) \in Str
  BY <1>4, <1>5
<1>7. {k \in Str : Min({a, b}) <= k /\ k <= Max({a, b})} = Between(a, b)
  <2>1. ASSUME NEW k \in Str
        PROVE  (Min({a, b}) <= k /\ k <= Max({a, b}))
                  <=> (a <= k /\ k <= b) \/ (b <= k /\ k <= a)
    BY <1>1, <1>4, <1>5
  <2> HIDE DEF Min, Max
  <2> QED
    BY <2>1 DEF Between
<1> QED
  BY <1>2, <1>6, <1>7

\* The three scans list what they should.
LEMMA ScansList ==
  ASSUME NEW layers \in Layers
  PROVE  /\ Scan(layers, LAMBDA map : map) = Entries(store)
         /\ \A a \in Str :
               Scan(layers, LAMBDA map : PrefixLoop(map, a)) = Listing(WithPrefix(a))
         /\ \A a, b \in Str :
               Scan(layers, LAMBDA map :
                   RangeLoop(map, Min(ToSet(<<a, b>>)), Max(ToSet(<<a, b>>)))) = Listing(Between(a, b))
<1> DEFINE mem == MemOf(layers)
           table == TableOf(layers)
<1>0. \A m : Kept(m) \in SUBSET Key
  BY DEF Kept
<1>1. Scan(layers, LAMBDA map : map) = Entries(store)
  <2>1. Scan(layers, LAMBDA map : map) = Live(Entries(MergeInto(mem, Entries(table))))
    BY DEF Scan, MemOf, TableOf
  <2>2. \A m : Kept(m) \cap Key = Kept(m)
    BY <1>0
  <2>3. Entries(MergeInto(mem, Entries(table)))
           = Sorted(Kept(MergedOf(layers, Key)) \cap Key, MergedOf(layers, Key))
    BY <2>2, EntriesSorted DEF MergedOf
  <2>4. Listing(Key) = Entries(store)
    BY <2>2, EntriesSorted, ListingIs
  <2> QED
    BY <2>1, <2>3, <2>4, ScanIs
<1>2. ASSUME NEW a \in Str
      PROVE  Scan(layers, LAMBDA map : PrefixLoop(map, a)) = Listing(WithPrefix(a))
  <2> DEFINE keys == WithPrefix(a)
  <2>1. Scan(layers, LAMBDA map : PrefixLoop(map, a))
           = Live(PrefixLoop(Entries(MergeInto(mem, PrefixLoop(Entries(table), a))), a))
    BY DEF Scan, MemOf, TableOf
  <2>2. \A m : PrefixLoop(Entries(m), a) = Sorted(Kept(m) \cap keys, m)
    BY <1>0, EntriesSorted, LoopsLeave
  <2>3. PrefixLoop(Entries(MergeInto(mem, PrefixLoop(Entries(table), a))), a)
           = Sorted(Kept(MergedOf(layers, keys)) \cap keys, MergedOf(layers, keys))
    BY <2>2 DEF MergedOf
  <2> QED
    BY <2>1, <2>3, ScanIs
<1>3. ASSUME NEW a \in Str, NEW b \in Str
      PROVE  Scan(layers, LAMBDA map :
                 RangeLoop(map, Min(ToSet(<<a, b>>)), Max(ToSet(<<a, b>>)))) = Listing(Between(a, b))
  <2> DEFINE low == Min(ToSet(<<a, b>>))
             high == Max(ToSet(<<a, b>>))
             keys == Between(a, b)
  <2>1. Scan(layers, LAMBDA map : RangeLoop(map, low, high))
           = Live(RangeLoop(Entries(MergeInto(mem, RangeLoop(Entries(table), low, high))), low, high))
    BY DEF Scan, MemOf, TableOf
  <2>2. low \in Str /\ high \in Str /\ {k \in Str : low <= k /\ k <= high} = keys
    BY SwappedIs
  <2> HIDE DEF low, high
  <2>3. ASSUME NEW m PROVE RangeLoop(Entries(m), low, high) = Sorted(Kept(m) \cap keys, m)
    <3>1. RangeLoop(Sorted(Kept(m), m), low, high)
             = Sorted(Kept(m) \cap {k \in Str : low <= k /\ k <= high}, m)
      <4>1. Kept(m) \in SUBSET Key
        BY <1>0
      <4>2. \A to \in Str : RangeLoop(Sorted(Kept(m), m), low, to)
                             = Sorted(Kept(m) \cap {k \in Str : low <= k /\ k <= to}, m)
        BY <2>2, <4>1, LoopsLeave
      <4> QED
        BY <2>2, <4>2
    <3> QED
      BY <2>2, <3>1, EntriesSorted
  <2>4. RangeLoop(Entries(MergeInto(mem, RangeLoop(Entries(table), low, high))), low, high)
           = Sorted(Kept(MergedOf(layers, keys)) \cap keys, MergedOf(layers, keys))
    BY <2>3 DEF MergedOf
  <2> QED
    BY <2>1, <2>4, ScanIs DEF low, high
<1> QED
  BY <1>1, <1>2, <1>3

\* The commands that list pairs, and those that read.
Scanning == {"KEYS", "RANGE", "PREFIX_SCAN"}
Reading  == {"GET", "EXISTS"} \cup Scanning

\* The arguments of the reading commands.
LEMMA ReadLines ==
  ASSUME NEW ln \in GoodLines
  PROVE  /\ ln.cmd \in {"GET", "EXISTS"} => ln.args[1] \in Key
         /\ ln.cmd = "KEYS" => Len(ln.args) = 0
         /\ ln.cmd = "PREFIX_SCAN" => ln.args[1] \in Str /\ Len(ln.args) = 1
         /\ ln.cmd = "RANGE" =>
               /\ ln.args[1] \in Str /\ ln.args[2] \in Str
               /\ ln.args = <<ln.args[1], ln.args[2]>> /\ Len(ln.args) = 2
  BY DEF GoodLines

\* A scan with a wrong number of arguments is no good line.
LEMMA NoBadScan ==
  ASSUME NEW ln \in GoodLines, ln \in BadLines, ln.cmd \in Scanning
  PROVE  FALSE
<1> DEFINE some == CHOOSE s \in Str : TRUE
           others(c) == {n \in 0..3 : n # Arity[c]}
           bad(c) == [cmd : {c}, args : {[i \in 1..n |-> some] : n \in others(c)}]
<1>1. BadLines = (UNION {bad(c) : c \in DOMAIN Arity}) \cup [cmd : {"", "?"}, args : {<<>>}]
  BY DEF BadLines
<1>2. PICK c \in DOMAIN Arity : ln \in bad(c)
  <2> HIDE DEF bad
  <2>1. ln \notin [cmd : {"", "?"}, args : {<<>>}]
    BY DEF Scanning
  <2>2. ln \in (UNION {bad(c) : c \in DOMAIN Arity})
    BY <1>1, <2>1
  <2> QED
    BY <2>2
<1>3. ln.cmd = c /\ ln.args \in {[i \in 1..n |-> some] : n \in others(c)}
  <2> HIDE DEF others
  <2> QED
    BY <1>2
<1> HIDE DEF some
<1>4. PICK n \in others(c) : ln.args = [i \in 1..n |-> some]
  BY <1>3
<1>5. n \in Nat /\ n # Arity[c]
  OBVIOUS
<1>6. Len(ln.args) = n
  BY <1>4, <1>5
<1>7. Arity["RANGE"] = 2 /\ Arity["KEYS"] = 0 /\ Arity["PREFIX_SCAN"] = 1
  BY DEF Arity
<1>8. Len(ln.args) = Arity[c]
  BY <1>3, <1>7, ReadLines DEF Scanning
<1> QED
  BY <1>5, <1>6, <1>8

\* A listing has pairs of keys and values.
LEMMA ListingTyped ==
  ASSUME store \in [Key -> Value], NEW keys
  PROVE  Listing(keys) \in Seq(Pair)
<1> DEFINE K == Kept(store) \cap keys
<1>1. K \in SUBSET Key /\ \A k \in K : store[k] \in Value
  BY DEF Kept
<1> HIDE DEF K
<1> DEFINE s == Sorted(K, store)
           N == Cardinality(K)
<1>2. Lists(s, N, K, store)
  BY <1>1, SortedLists
<1> HIDE DEF s, N
<1>3. N \in Nat /\ s = [n \in 1..N |-> s[n]]
  BY <1>2 DEF Lists
<1>4. \A n \in 1..N : s[n] \in Pair
  <2> SUFFICES ASSUME NEW n \in 1..N PROVE s[n] \in Pair
    OBVIOUS
  <2>1. s[n].key \in K /\ s[n] = [key |-> s[n].key, val |-> store[s[n].key]]
    BY <1>2 DEF Lists
  <2> QED
    BY <1>1, <2>1 DEF Pair, Value
<1>5. s \in [1..N -> Pair]
  BY <1>3, <1>4
<1>6. s \in Seq(Pair)
  BY <1>3, <1>5
<1> QED
  BY <1>6, ListingIs DEF K, s

\* The keys without their values.
KeysOnly == [n \in DOMAIN Entries(store) |-> [key |-> Entries(store)[n].key, val |-> Absent]]

\* They too are pairs.
LEMMA KeysTyped ==
  ASSUME store \in [Key -> Value]
  PROVE  KeysOnly \in Seq(Pair)
<1> DEFINE s == Sorted(Kept(store), store)
           N == Cardinality(Kept(store))
<1>1. Lists(s, N, Kept(store), store)
  BY SortedLists DEF Kept
<1>2. Entries(store) = s
  BY EntriesSorted
<1> HIDE DEF s, N
<1>3. N \in Nat /\ DOMAIN s = 1..N /\ \A n \in 1..N : s[n].key \in Key
  BY <1>1 DEF Lists, Kept
<1>4. \A n \in 1..N : [key |-> s[n].key, val |-> Absent] \in Pair
  BY <1>3 DEF Pair
<1>5. [n \in 1..N |-> [key |-> s[n].key, val |-> Absent]] \in [1..N -> Pair]
  BY <1>4
<1>6. KeysOnly \in [1..N -> Pair]
  BY <1>2, <1>3, <1>5 DEF KeysOnly
<1> QED
  BY <1>3, <1>6

\* What is said is a reply.
LEMMA SaidIs ==
  ASSUME NEW what \in {"OK", "VALUE", "NOT_FOUND", "TRUE", "FALSE", "END",
                       "COMPACTION SUCCESSFUL", "ERROR"},
         NEW data \in Seq(Pair)
  PROVE  Say(what, data) \in Reply /\ Say(what, data).data = data
  BY DEF Say, Reply

\* A reading command is answered with a reply, and a scan with its listing.
LEMMA AnswerIs ==
  ASSUME store \in [Key -> Value], NEW layers \in Layers,
         NEW ln \in GoodLines, ln.cmd \in Reading
  PROVE  /\ Answer(ln.cmd, ln.args, layers) \in Reply
         /\ ln.cmd = "RANGE" =>
               Answer(ln.cmd, ln.args, layers).data = Listing(Between(ln.args[1], ln.args[2]))
         /\ ln.cmd = "PREFIX_SCAN" =>
               Answer(ln.cmd, ln.args, layers).data = Listing(WithPrefix(ln.args[1]))
         /\ ln.cmd = "KEYS" => Answer(ln.cmd, ln.args, layers).data = KeysOnly
<1> DEFINE r == Answer(ln.cmd, ln.args, layers)
<1>0. <<>> \in Seq(Pair)
  OBVIOUS
<1>1. CASE ln.cmd = "GET"
  <2>1. ln.args[1] \in Key
    BY <1>1, ReadLines
  <2>2. Seen(layers[ln.args[1]]) = store[ln.args[1]] /\ store[ln.args[1]] \in Value
    BY <2>1 DEF Layers
  <2>3. <<[key |-> ln.args[1], val |-> store[ln.args[1]]]>> \in Seq(Pair)
    BY <2>1, <2>2 DEF Pair, Value
  <2>4. r = IF store[ln.args[1]] # Absent
            THEN Say("VALUE", <<[key |-> ln.args[1], val |-> store[ln.args[1]]]>>)
            ELSE Say("NOT_FOUND", <<>>)
    BY <1>1, <2>2 DEF Answer
  <2> QED
    BY <1>0, <1>1, <2>3, <2>4, SaidIs
<1>2. CASE ln.cmd = "EXISTS"
  <2>1. r = Say("TRUE", <<>>) \/ r = Say("FALSE", <<>>)
    BY <1>2 DEF Answer
  <2>2. Say("TRUE", <<>>) \in Reply /\ Say("FALSE", <<>>) \in Reply
    BY <1>0, SaidIs
  <2>3. r \in Reply
    BY <2>1, <2>2
  <2> QED
    BY <1>2, <2>3
<1>3. CASE ln.cmd = "KEYS"
  <2>1. r = Say("END", KeysOnly)
    BY <1>3, ScansList DEF Answer, KeysOnly
  <2>2. KeysOnly \in Seq(Pair)
    BY KeysTyped
  <2> QED
    BY <1>3, <2>1, <2>2, SaidIs
<1>4. CASE ln.cmd = "RANGE"
  <2>1. PICK a \in Str, b \in Str : ln.args = <<a, b>> /\ ln.args[1] = a /\ ln.args[2] = b
    BY <1>4, ReadLines
  <2>2. r = Say("END", Scan(layers, LAMBDA map :
                RangeLoop(map, Min(ToSet(<<a, b>>)), Max(ToSet(<<a, b>>)))))
    BY <1>4, <2>1 DEF Answer
  <2>3. r = Say("END", Listing(Between(a, b)))
    BY <2>2, ScansList
  <2> QED
    BY <1>4, <2>1, <2>3, ListingTyped, SaidIs
<1>5. CASE ln.cmd = "PREFIX_SCAN"
  <2>1. ln.args[1] \in Str
    BY <1>5, ReadLines
  <2>2. r = Say("END", Scan(layers, LAMBDA map : PrefixLoop(map, ln.args[1])))
    BY <1>5 DEF Answer
  <2>3. r = Say("END", Listing(WithPrefix(ln.args[1])))
    BY <2>1, <2>2, ScansList
  <2> QED
    BY <1>5, <2>3, ListingTyped, SaidIs
<1> QED
  BY <1>1, <1>2, <1>3, <1>4, <1>5 DEF Reading, Scanning

-----------------------------------------------------------------------------
(* Lines and replies.                                                      *)

\* What is said is of its type, an update has its line, and a scan that was
\* answered has its listing.
Talk ==
    /\ request \in D!Update \cup {NoRequest}
    /\ line \in Line \cup {NoLine} /\ reply \in Reply
    /\ phase \in {"down", "prompt", "update", "print"}
    /\ phase = "update" => line \in GoodLines /\ line.cmd \in {"SET", "DELETE"}
    /\ ListingsAreExact

\* COMPACT is a line.
LEMMA CompactLine == [cmd |-> "COMPACT", args |-> <<>>] \in GoodLines
<1> DEFINE ln == [cmd |-> "COMPACT", args |-> <<>>]
<1>1. ln \in [cmd : {"KEYS", "COMPACT", "EXIT", "QUIT"}, args : {<<>>}]
  OBVIOUS
<1> HIDE DEF ln
<1> QED
  BY <1>1 DEF GoodLines

\* What is said without data is a reply.
LEMMA NothingSaid ==
  /\ NoReply \in Reply
  /\ \A what \in {"OK", "NOT_FOUND", "ERROR", "COMPACTION SUCCESSFUL"} : Say(what, <<>>) \in Reply
<1>1. <<>> \in Seq(Pair)
  OBVIOUS
<1> QED
  BY <1>1, SaidIs DEF NoReply

\* Nothing is said at first.
LEMMA InitTalk == Init => Talk
  BY NothingSaid DEF Init, D!Init, Talk, ListingsAreExact

\* Every step keeps it.  While a listing is printed, the map does not change.
LEMMA NextTalk == IInv /\ Talk /\ [Next]_vars => Talk'
<1> SUFFICES ASSUME IInv, Talk, [Next]_vars PROVE Talk'
  OBVIOUS
<1>0. store \in [Key -> Value]
  BY DEF IInv, MapsOK
\* A step that prints nothing and begins no update.
<1>1. ASSUME phase' \in {"down", "prompt"}, line' = NoLine, reply' = NoReply,
             request' \in {request, NoRequest}
      PROVE  Talk'
  BY <1>1, NothingSaid DEF Talk, ListingsAreExact
\* One that prints something else than a listing.
<1>2. ASSUME NEW ln \in Line, NEW r \in Reply, Prints(ln, r),
             ln \in GoodLines => ln.cmd \notin Scanning,
             request' \in {request, NoRequest}
      PROVE  Talk'
  <2>1. line' = ln /\ reply' = r /\ phase' = "print"
    BY <1>2 DEF Prints
  <2>2. ListingsAreExact'
    BY <1>2, <2>1 DEF ListingsAreExact, Scanning
  <2> QED
    BY <1>2, <2>1, <2>2 DEF Talk
\* One that begins an update.
<1>3. ASSUME NEW ln \in GoodLines, ln.cmd \in {"SET", "DELETE"}, NEW k \in Key,
             NEW v \in Val \cup {Absent}, BeginUpdate(ln, k, v)
      PROVE  Talk'
  <2>1. /\ request' \in D!Update /\ line' = ln /\ phase' = "update" /\ reply' = reply
    BY <1>3 DEF BeginUpdate, D!Begin
  <2>2. ListingsAreExact'
    BY <2>1 DEF ListingsAreExact
  <2> QED
    BY <1>3, <2>1, <2>2 DEF Talk, Line
<1>4. CASE Start
  <2>1. UNCHANGED <<request, line, reply>> /\ phase' = "prompt"
    BY <1>4 DEF Start, mapVars
  <2> QED
    BY <2>1 DEF Talk, ListingsAreExact
<1>5. CASE Exit \/ Crash \/ PowerLoss
  BY <1>1, <1>5 DEF Exit, Crash, PowerLoss, Ended, D!Crash, D!PowerLoss
<1>6. CASE Reject
  <2>1. PICK ln \in BadLines : Prints(ln, Say("ERROR", <<>>))
    BY <1>6 DEF Reject
  <2>2. request' = request
    BY <1>6 DEF Reject, mapVars
  <2>3. ln \in GoodLines => ln.cmd \notin Scanning
    BY NoBadScan
  <2> QED
    BY <1>2, <2>1, <2>2, <2>3, NothingSaid DEF Line
<1>7. CASE Read
  <2>1. PICK layers \in Layers, ln \in GoodLines :
           ln.cmd \in Reading /\ Prints(ln, Answer(ln.cmd, ln.args, layers))
    BY <1>7 DEF Read, Reading, Scanning
  <2>2. /\ line' = ln /\ reply' = Answer(ln.cmd, ln.args, layers) /\ phase' = "print"
        /\ UNCHANGED <<store, request>>
    BY <1>7, <2>1 DEF Read, Prints, mapVars
  <2>3. /\ reply' \in Reply
        /\ ln.cmd = "RANGE" => reply'.data = Listing(Between(ln.args[1], ln.args[2]))
        /\ ln.cmd = "PREFIX_SCAN" => reply'.data = Listing(WithPrefix(ln.args[1]))
        /\ ln.cmd = "KEYS" => reply'.data = KeysOnly
    BY <1>0, <2>1, <2>2, AnswerIs
  <2>4. ListingsAreExact'
    BY <2>2, <2>3 DEF ListingsAreExact, Listing, Entries, KeysOnly
  <2> QED
    BY <2>2, <2>3, <2>4 DEF Talk, Line
<1>8. CASE Compact
  <2> DEFINE ln == [cmd |-> "COMPACT", args |-> <<>>]
  <2>1. PICK what \in {"COMPACTION SUCCESSFUL", "ERROR"} : Prints(ln, Say(what, <<>>))
    BY <1>8 DEF Compact
  <2>2. request' = request
    BY <1>8 DEF Compact, mapVars
  <2>3. ln \in GoodLines /\ ln.cmd \notin Scanning
    <3>1. ln \in GoodLines
      BY CompactLine
    <3> QED
      BY <3>1 DEF Scanning
  <2> HIDE DEF ln
  <2>4. ln \in Line
    BY <2>3 DEF Line
  <2>5. Say(what, <<>>) \in Reply
    BY NothingSaid
  <2> QED
    BY <1>2, <2>1, <2>2, <2>3, <2>4, <2>5
<1>9. CASE Set
  <2>1. PICK ln \in GoodLines : ln.cmd = "SET" /\ BeginUpdate(ln, ln.args[1], ln.args[2])
    BY <1>9 DEF Set
  <2> QED
    BY <1>3, <2>1, UpdateLines
<1>10. CASE Delete
  <2>1. PICK ln \in GoodLines :
           /\ ln.cmd = "DELETE"
           /\ IF Found(ln.args[1]) THEN BeginUpdate(ln, ln.args[1], Absent)
              ELSE Prints(ln, Say("NOT_FOUND", <<>>)) /\ UNCHANGED mapVars
    BY <1>10 DEF Delete
  <2>2. CASE Found(ln.args[1])
    BY <1>3, <2>1, <2>2, UpdateLines
  <2>3. CASE ~Found(ln.args[1])
    <3>1. ln \in Line /\ ln.cmd \notin Scanning
      BY <2>1 DEF Line, Scanning
    <3>2. Prints(ln, Say("NOT_FOUND", <<>>)) /\ request' = request
      BY <2>1, <2>3 DEF mapVars
    <3> QED
      BY <1>2, <3>1, <3>2, NothingSaid
  <2> QED
    BY <2>2, <2>3
<1>11. CASE UpdateStep
  <2>1. phase = "update" /\ UNCHANGED <<request, line, reply, phase>>
    BY <1>11 DEF UpdateStep, D!Take
  <2> QED
    BY <2>1 DEF Talk, ListingsAreExact
<1>12. CASE UpdateEnds
  <2>1. phase = "update" /\ request' = NoRequest /\ Prints(line, Say("OK", <<>>))
    BY <1>12 DEF UpdateEnds, D!End
  <2>2. line \in Line /\ line.cmd \notin Scanning
    BY <2>1 DEF Talk, Line, Scanning
  <2> QED
    BY <1>2, <2>1, <2>2, NothingSaid
<1>13. CASE Shown
  BY <1>1, <1>13 DEF Shown, mapVars
<1>14. CASE Persist \/ UNCHANGED vars
  <2>1. UNCHANGED <<store, request, line, reply, phase>>
    BY <1>14 DEF Persist, D!Persist, vars, mapVars
  <2> QED
    BY <2>1 DEF Talk, ListingsAreExact, Listing, Entries
<1> QED
  BY <1>4, <1>5, <1>6, <1>7, <1>8, <1>9, <1>10, <1>11, <1>12, <1>13, <1>14 DEF Next

\* The command loop stays within IInv and Talk.
LEMMA InductiveTalk == Spec => [](IInv /\ Talk)
  BY InitIInv, NextIInv, InitTalk, NextTalk, PTL DEF Spec

\* Each variable of the command loop holds a value of its type.
THEOREM TypeCorrect == Spec => []TypeOK
<1>1. IInv /\ Talk => TypeOK
  BY DEF IInv, Talk, TypeOK, MapsOK, Value
<1> QED
  BY <1>1, InductiveTalk, PTL

\* KEYS, RANGE and PREFIX_SCAN list exactly the live pairs they should, in order,
\* for any strings, and any spread of the keys over memtable and SSTables.
THEOREM ListsExactly == Spec => []ListingsAreExact
<1>1. Talk => ListingsAreExact
  BY DEF Talk
<1> QED
  BY <1>1, InductiveTalk, PTL

=============================================================================
