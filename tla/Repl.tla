-------------------------------- MODULE Repl --------------------------------
(***************************************************************************)
(* The command loop of src/main.cpp, and what its user can know.  The      *)
(* engine is the map of DurableMap, which MewDb implements, for the        *)
(* commands that update it; for those that read it, it is also the loops   *)
(* of keys(), range() and prefix_scan() over the merged entries.           *)
(*                                                                         *)
(* An exception, EXIT, the end of the input and a signal all end the       *)
(* process, and whoever uses it starts it again on the same files.         *)
(***************************************************************************)
EXTENDS Scans

CONSTANTS
    Key, Val,       \* the strings used as keys and as values
    Absent, Tomb, NoRequest, NoLine,
    MaxDoubt        \* bound: keys with an unanswered update

ASSUME WordAssumption ==
    Key \subseteq Str /\ IsFiniteSet(Key) /\ Val \subseteq Str /\ MaxDoubt \in Nat
ASSUME CellAssumption == Absent \notin Val /\ Tomb \notin Val \cup {Absent}

VARIABLES
    store, durable, request,    \* DurableMap
    line,       \* startRepl(): command, the line being executed
    reply,      \* what is printed for it
    phase,      \* where the process is
    may         \* history: the values that the user has to reckon with

mapVars == <<store, durable, request>>
vars == <<mapVars, line, reply, phase, may>>

D == INSTANCE DurableMap

Arity == [SET |-> 2, GET |-> 1, DELETE |-> 1, EXISTS |-> 1, KEYS |-> 0,
          RANGE |-> 2, PREFIX_SCAN |-> 1, COMPACT |-> 0, EXIT |-> 0, QUIT |-> 0]

\* The lines: each command with keys where it takes keys, and any command with
\* a wrong number of arguments; "" is an empty line, "?" an unknown or blank one.
GoodLines ==
    UNION {[cmd : {"SET"}, args : {<<k, v>> : k \in Key, v \in Val}],
           [cmd : {"GET", "DELETE", "EXISTS"}, args : {<<k>> : k \in Key}],
           [cmd : {"RANGE"}, args : Str \X Str],
           [cmd : {"PREFIX_SCAN"}, args : {<<s>> : s \in Str}],
           [cmd : {"KEYS", "COMPACT", "EXIT", "QUIT"}, args : {<<>>}]}
BadLines ==
    LET some == CHOOSE s \in Str : TRUE
        others(c) == {n \in 0..3 : n # Arity[c]}
    IN  (UNION {[cmd : {c}, args : {[i \in 1..n |-> some] : n \in others(c)}] : c \in DOMAIN Arity})
        \cup [cmd : {"", "?"}, args : {<<>>}]
Line == GoodLines \cup BadLines

Pair  == [key : Key, val : Val \cup {Absent}]
Reply == [say : {"OK", "VALUE", "NOT_FOUND", "TRUE", "FALSE", "END",
                 "COMPACTION SUCCESSFUL", "ERROR"},
          data : Seq(Pair)]

Say(what, data) == [say |-> what, data |-> data]
NoReply == Say("ERROR", <<>>)

Init ==
    /\ D!Init
    /\ line = NoLine /\ reply = NoReply /\ phase = "down"
    /\ may = [k \in Key |-> {Absent}]

-----------------------------------------------------------------------------
(* What the reading commands answer.                                       *)

Cell == Val \cup {Tomb, Absent}

\* A map as the sequence of its entries.
Entries(m) ==
    LET keys == InOrder({k \in Key : m[k] # Absent})
    IN  [n \in DOMAIN keys |-> [key |-> keys[n], val |-> m[keys[n]]]]

\* What a key has, with its cells in the memtable and in the SSTables.
Seen(cells) ==
    LET cell == IF cells[1] # Absent THEN cells[1] ELSE cells[2]
    IN  IF cell = Tomb THEN Absent ELSE cell

\* The ways in which memtable and SSTables can hold the map.
Layers == {f \in [Key -> Cell \X Cell] : \A k \in Key : Seen(f[k]) = store[k]}

\* The copy of the memtable, with the records of a table for keys it has not.
MergeInto(mem, recs) ==
    LET given == {n \in DOMAIN recs : mem[recs[n].key] = Absent}
    IN  [k \in Key |-> IF \E n \in given : recs[n].key = k
                       THEN recs[CHOOSE n \in given : recs[n].key = k].val ELSE mem[k]]

\* Mutant of Live: every entry.
LiveOrNot(map) == map

\* has_value()
Live(map) == Picked(map, {n \in DOMAIN map : map[n].val # Tomb})

\* Part(_) is read from the table, merged, and read again from the result.
Scan(layers, Part(_)) ==
    LET mem   == [k \in Key |-> layers[k][1]]
        table == [k \in Key |-> layers[k][2]]
    IN  Live(Part(Entries(MergeInto(mem, Part(Entries(table))))))

\* get()
Found(k) == store[k] # Absent

\* startRepl() prints KEYS without the values; range() swaps its arguments.
Answer(c, args, layers) ==
    CASE c = "GET" ->
            IF Seen(layers[args[1]]) # Absent
            THEN Say("VALUE", <<[key |-> args[1], val |-> Seen(layers[args[1]])]>>)
            ELSE Say("NOT_FOUND", <<>>)
      [] c = "EXISTS" ->
            Say(IF Seen(layers[args[1]]) # Absent THEN "TRUE" ELSE "FALSE", <<>>)
      [] c = "KEYS" ->
            LET all == Scan(layers, LAMBDA map : map)
            IN  Say("END", [n \in DOMAIN all |-> [key |-> all[n].key, val |-> Absent]])
      [] c = "RANGE" ->
            Say("END", Scan(layers, LAMBDA map :
                RangeLoop(map, Min(ToSet(args)), Max(ToSet(args)))))
      [] OTHER ->    \* PREFIX_SCAN
            Say("END", Scan(layers, LAMBDA map : PrefixLoop(map, args[1])))

-----------------------------------------------------------------------------
(* startRepl().                                                            *)

Start ==
    /\ phase = "down"
    /\ phase' = "prompt"
    /\ UNCHANGED <<mapVars, line, reply, may>>

Ended == line' = NoLine /\ reply' = NoReply /\ phase' = "down"

\* EXIT or QUIT with nothing else on the line.
Exit ==
    /\ phase = "prompt"
    /\ \E ln \in Line : ln.cmd \in {"EXIT", "QUIT"} /\ ln.args = <<>>
    /\ D!Crash
    /\ Ended
    /\ UNCHANGED may

\* The line l, answered with r.
Prints(ln, r) == line' = ln /\ reply' = r /\ phase' = "print"

\* A line that is not empty, and does nothing: an unknown command (EXIT with
\* arguments too), or the wrong number of arguments.
Reject ==
    /\ phase = "prompt"
    /\ \E ln \in BadLines \ [cmd : {""}, args : {<<>>}] : Prints(ln, Say("ERROR", <<>>))
    /\ UNCHANGED <<mapVars, may>>

Read ==
    /\ phase = "prompt"
    /\ \E layers \in Layers, ln \in GoodLines :
          /\ ln.cmd \in {"GET", "EXISTS", "KEYS", "RANGE", "PREFIX_SCAN"}
          /\ Prints(ln, Answer(ln.cmd, ln.args, layers))
    /\ UNCHANGED <<mapVars, may>>

Compact ==
    /\ phase = "prompt"
    /\ \E what \in {"COMPACTION SUCCESSFUL", "ERROR"} :
          Prints([cmd |-> "COMPACT", args |-> <<>>], Say(what, <<>>))
    /\ UNCHANGED <<mapVars, may>>

\* From here on the user reckons with the new value too.
Doubt(k, v) ==
    /\ may' = [may EXCEPT ![k] = @ \cup {v}]
    /\ Cardinality({q \in Key : Cardinality(may'[q]) > 1}) <= MaxDoubt

BeginUpdate(ln, k, v) ==
    /\ request' = [key |-> k, val |-> v]
    /\ D!Begin
    /\ line' = ln /\ phase' = "update"
    /\ UNCHANGED reply

Set ==
    /\ phase = "prompt"
    /\ \E ln \in GoodLines :
          /\ ln.cmd = "SET"
          /\ Doubt(ln.args[1], ln.args[2])
          /\ BeginUpdate(ln, ln.args[1], ln.args[2])

\* del() of a key that is not found is answered without an update.
Delete ==
    /\ phase = "prompt"
    /\ \E ln \in GoodLines :
          /\ ln.cmd = "DELETE"
          /\ Doubt(ln.args[1], Absent)
          /\ IF Found(ln.args[1]) THEN BeginUpdate(ln, ln.args[1], Absent)
             ELSE Prints(ln, Say("NOT_FOUND", <<>>)) /\ UNCHANGED mapVars

UpdateStep ==
    /\ phase = "update"
    /\ D!Take
    /\ UNCHANGED <<line, reply, phase, may>>

\* Mutant of UpdateEnds: the call returns before the log is synced.
UpdateEndsUnsynced ==
    /\ phase = "update"
    /\ store[request.key] = request.val
    /\ request' = NoRequest
    /\ Prints(line, Say("OK", <<>>))
    /\ UNCHANGED <<store, durable, may>>

UpdateEnds ==
    /\ phase = "update"
    /\ D!End
    /\ Prints(line, Say("OK", <<>>))
    /\ UNCHANGED may

\* The user sees the reply.  OK to an update says what the key has; NOT_FOUND
\* does not: an earlier delete that was not answered may yet be undone.
Shown ==
    /\ phase = "print"
    /\ may' = IF reply.say # "OK" THEN may
              ELSE [may EXCEPT ![line.args[1]] =
                       {IF line.cmd = "SET" THEN line.args[2] ELSE Absent}]
    /\ line' = NoLine /\ reply' = NoReply /\ phase' = "prompt"
    /\ UNCHANGED mapVars

-----------------------------------------------------------------------------
Crash == phase # "down" /\ D!Crash /\ Ended /\ UNCHANGED may

PowerLoss == D!PowerLoss /\ Ended /\ UNCHANGED may

Persist == D!Persist /\ UNCHANGED <<line, reply, phase, may>>

Next ==
    \/ Start \/ Exit \/ Reject \/ Read \/ Compact \/ Set \/ Delete
    \/ UpdateStep \/ UpdateEnds \/ Shown
    \/ Crash \/ PowerLoss \/ Persist

Spec == Init /\ [][Next]_vars

-----------------------------------------------------------------------------
(* Properties.                                                             *)

\* Each variable holds a value of its type.
TypeOK ==
    /\ store \in [Key -> Val \cup {Absent}]
    /\ durable \in [Key -> Val \cup {Absent}]
    /\ request \in D!Update \cup {NoRequest}
    /\ line \in Line \cup {NoLine}
    /\ reply \in Reply
    /\ phase \in {"down", "prompt", "update", "print"}
    /\ may \in [Key -> SUBSET (Val \cup {Absent})]

\* What a user can rely on: a key has the value of the last update that was
\* answered OK, or of a later one that was not answered - whatever crashes,
\* power losses and rejected lines there were, for this process and for any that
\* comes after a power loss.
UserKnows == \A k \in Key : store[k] \in may[k] /\ durable[k] \in may[k]

\* The live pairs of the map with some keys, in the order of the keys.
Listing(keys) == Only(Entries(store), keys)

Between(s, t) == {k \in Str : (s <= k /\ k <= t) \/ (t <= k /\ k <= s)}

\* RANGE and PREFIX_SCAN list exactly the live pairs between the arguments,
\* whichever comes first, or with the prefix, in the order of their keys, and
\* KEYS lists all keys: however the keys, dead ones too, are spread over the
\* memtable and the SSTables.
ListingsAreExact ==
    phase = "print" /\ line \in GoodLines =>
        CASE line.cmd = "RANGE" ->
                reply.data = Listing(Between(line.args[1], line.args[2]))
          [] line.cmd = "PREFIX_SCAN" ->
                reply.data = Listing(WithPrefix(line.args[1]))
          [] line.cmd = "KEYS" ->
                reply.data = [n \in DOMAIN Entries(store) |->
                                 [key |-> Entries(store)[n].key, val |-> Absent]]
          [] OTHER -> TRUE

=============================================================================
