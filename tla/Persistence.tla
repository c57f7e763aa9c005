---------------------------- MODULE Persistence ----------------------------
(***************************************************************************)
(* The PersistenceManager of a server whose clients go on working: a loop  *)
(* starts a save in a detached thread, waits for it at most 30 seconds,    *)
(* sleeps and starts the next.  A save copies the maps without their locks *)
(* and rewrites the one file in place.  The process may end at any moment; *)
(* the next one loads the file and starts the loop again.  (No program of  *)
(* the repository does; this is how the class is made to be used.)         *)
(*                                                                         *)
(* Only strings are loaded back, so the store is here the map of strings;  *)
(* the sections of the other types are one line of the file that turns     *)
(* loading off.  Lines are taken to have one length, so that two saves     *)
(* that write at the same time meet line by line.                          *)
(*                                                                         *)
(* The line of a string is its key, '=' and its value, and is read back    *)
(* split at the first '='.  What it reads back as is the constant Reads:   *)
(* the same pair, unless the key itself has an '='.                        *)
(*                                                                         *)
(* `source' and `mixed' are kept for the properties; no action looks at    *)
(* them.                                                                   *)
(***************************************************************************)
EXTENDS Integers, Sequences, FiniteSets

CONSTANTS
    Keys,
    Texts,       \* all that the value of a string may be
    Values,      \* those of them that SET writes
    Deadlines,   \* the deadlines EXPIRE may give
    Reads,       \* the pair that the line of a pair of key and value reads as
    Odd,         \* pairs of key and value whose line reads like "[...]"
    Saves,       \* names for save threads; bounds those alive at once
    MaxTime,     \* bound on the clock
    MaxWrites,   \* bound on the clients' changes
    MaxTimeouts, \* bound on the waits given up
    MaxCrashes,  \* bound on the ends of the process
    Cut,         \* the value of a line that was written in part
    NoSave

ASSUME PersistenceAssumption ==
    /\ Deadlines \subseteq Int
    /\ Values \subseteq Texts
    /\ Cut \in Texts \ Values
    /\ Reads \in [Keys \X Texts -> Keys \X Texts]
    /\ Odd \subseteq Keys \X Texts
    /\ NoSave \notin Saves
    /\ MaxTime \in Nat /\ MaxWrites \in Nat
    /\ MaxTimeouts \in Nat /\ MaxCrashes \in Nat

VARIABLES
    strings,   \* string_data_
    now,       \* the steady clock
    program,   \* "up", "stopping" (in stopAutoPersistence) or "down"
    loop,      \* auto_persistence_thread_: "off", "turn" or "wait"
    awaited,   \* the save whose future the loop waits for
    stage,     \* [Saves -> "idle", "copy", "open" or "write"]
    snap,      \* [Saves -> stringData], the copy so far
    todo,      \* [Saves -> the keys still to be copied, or written]
    line,      \* [Saves -> where in the file the next line goes]
    late,      \* the saves the loop has stopped waiting for
    file,      \* the lines of the file
    source,    \* the copy that was written to the file last
    mixed,     \* has the file been opened while another save was writing?
    writes, timeouts, crashes

data == <<strings, now, writes>>
looping == <<program, loop, awaited>>
saving == <<stage, snap, todo, line>>
disk == <<file, source, mixed>>
vars == <<data, looping, saving, late, timeouts, disk, crashes>>

Absent == [in |-> FALSE]
Items == {Absent} \cup [in : {TRUE}, value : Texts, expires : BOOLEAN, expiry : Deadlines \cup {0}]
Item(v) == [in |-> TRUE, value |-> v, expires |-> FALSE, expiry |-> 0]
Nothing == [k \in Keys |-> Absent]

\* is_expired of the store, and the test a save makes, which differ on
\* deadlines before the epoch of the clock and at the very deadline.
IsExpired(i) == i.in /\ i.expires /\ i.expiry > 0 /\ now > i.expiry
\* Mutant: expired items are saved as well.
IsSaved_Always(i) == i.in
IsSaved(i) == i.in /\ (~i.expires \/ i.expiry > now)

Busy == {s \in Saves : stage[s] # "idle"}
Writing == {s \in Saves : stage[s] = "write"}

(***************************************************************************)
(* The file                                                                *)
(***************************************************************************)

StringsLine == [kind |-> "strings"]
RestLine == [kind |-> "rest"]
Hole == [kind |-> "hole"]   \* bytes that were skipped; no line end
ItemLine(k, v) == [kind |-> "item", key |-> k, value |-> v]

\* The line as getline sees it: a hole hides the start of the one after it.
Clear(f, i) == i = 1 \/ f[i - 1].kind # "hole"

\* A line that is taken for the header of a section.
IsHeader(f, i) ==
    /\ Clear(f, i)
    /\ \/ f[i].kind \in {"strings", "rest"}
       \/ f[i].kind = "item" /\ <<f[i].key, f[i].value>> \in Odd

\* The last header before line i is [STRINGS].
InStrings(f, i) ==
    \E h \in 1..(i - 1) :
        /\ IsHeader(f, h) /\ f[h].kind = "strings"
        /\ \A j \in (h + 1)..(i - 1) : ~IsHeader(f, j)

\* The key and the value that line i gives to Storage::set.
ReadKey(f, i) == Reads[<<f[i].key, f[i].value>>][1]
ReadValue(f, i) == Reads[<<f[i].key, f[i].value>>][2]

\* The lines that loadFromFile gives to Storage::set for k.
LinesOf(f, k) ==
    {i \in DOMAIN f :
        /\ f[i].kind = "item" /\ ReadKey(f, i) = k
        /\ Clear(f, i) /\ ~IsHeader(f, i) /\ InStrings(f, i)}

\* What it leaves in an empty store: of two lines for a key the later one,
\* and no deadlines.
Loaded(f) ==
    [k \in Keys |->
        IF LinesOf(f, k) = {} THEN Absent
        ELSE Item(ReadValue(f, CHOOSE i \in LinesOf(f, k) : \A j \in LinesOf(f, k) : j <= i))]

\* The file after l has been written at position p.
Put(p, l) ==
    IF p <= Len(file) THEN [file EXCEPT ![p] = l]
    ELSE file \o [i \in 1..(p - 1 - Len(file)) |-> Hole] \o <<l>>

\* A process that ends in the middle of a save leaves all it has written, or
\* only part of the last line: too little to be a line with '=', or part of
\* its value.
CutShort(f) ==
    {f} \cup (IF Writing = {} \/ f = <<>> THEN {}
              ELSE {SubSeq(f, 1, Len(f) - 1)} \cup
                   IF f[Len(f)].kind # "item" THEN {}
                   ELSE {[f EXCEPT ![Len(f)].value = Cut]})

Init ==
    /\ strings = Nothing /\ now = 0
    /\ program = "up" /\ loop = "off" /\ awaited = NoSave
    /\ stage = [s \in Saves |-> "idle"]
    /\ snap = [s \in Saves |-> Nothing]
    /\ todo = [s \in Saves |-> {}]
    /\ line = [s \in Saves |-> 1]
    /\ late = {}
    /\ file = <<>> /\ source = Nothing /\ mixed = FALSE
    /\ writes = 0 /\ timeouts = 0 /\ crashes = 0

(***************************************************************************)
(* The clients                                                             *)
(***************************************************************************)

Change(k, item) ==
    /\ program # "down"
    /\ strings' = [strings EXCEPT ![k] = item]
    /\ UNCHANGED <<now, looping, saving, late, disk, timeouts, crashes>>

Set(k, v) ==
    /\ writes < MaxWrites /\ writes' = writes + 1
    /\ Change(k, Item(v))

Expire(k, d) ==
    /\ writes < MaxWrites /\ writes' = writes + 1
    /\ strings[k].in
    /\ Change(k, [strings[k] EXCEPT !.expires = TRUE, !.expiry = d])

\* Any call that removes an expired string first.
Sweep(k) == IsExpired(strings[k]) /\ Change(k, Absent) /\ UNCHANGED writes

Tick ==
    /\ now < MaxTime /\ now' = now + 1
    /\ UNCHANGED <<strings, writes, looping, saving, late, disk, timeouts, crashes>>

(***************************************************************************)
(* The loop                                                                *)
(***************************************************************************)

StartAuto ==
    /\ program = "up" /\ loop = "off"
    /\ loop' = "turn"
    /\ UNCHANGED <<data, program, awaited, saving, late, disk, timeouts, crashes>>

\* stopAutoPersistence clears the flag ...
StopAuto ==
    /\ program = "up" /\ loop # "off"
    /\ program' = "stopping"
    /\ UNCHANGED <<data, loop, awaited, saving, late, disk, timeouts, crashes>>

\* ... and joins the thread.
Joined ==
    /\ program = "stopping" /\ loop = "off"
    /\ program' = "up"
    /\ UNCHANGED <<data, loop, awaited, saving, late, disk, timeouts, crashes>>

\* saveToFileAsync
Launch(s) ==
    /\ loop = "turn" /\ program = "up"
    /\ stage[s] = "idle"
    /\ stage' = [stage EXCEPT ![s] = "copy"]
    /\ snap' = [snap EXCEPT ![s] = Nothing]
    /\ todo' = [todo EXCEPT ![s] = Keys]
    /\ loop' = "wait" /\ awaited' = s
    /\ UNCHANGED <<data, program, line, late, disk, timeouts, crashes>>

LoopEnds ==
    /\ loop = "turn" /\ program = "stopping"
    /\ loop' = "off"
    /\ UNCHANGED <<data, program, awaited, saving, late, disk, timeouts, crashes>>

\* Mutant: the loop does not wait for the save.
Ready_AtOnce ==
    /\ loop = "wait"
    /\ loop' = "turn" /\ awaited' = NoSave
    /\ UNCHANGED <<data, program, saving, late, disk, timeouts, crashes>>

\* The sleep before the next turn needs no state: a turn may come late.
Ready ==
    /\ loop = "wait" /\ stage[awaited] = "idle"
    /\ loop' = "turn" /\ awaited' = NoSave
    /\ UNCHANGED <<data, program, saving, late, disk, timeouts, crashes>>

\* After 30 seconds the loop goes on without the save.
TimesOut ==
    /\ timeouts < MaxTimeouts /\ timeouts' = timeouts + 1
    /\ loop = "wait" /\ stage[awaited] # "idle"
    /\ loop' = "turn" /\ awaited' = NoSave
    /\ late' = late \cup {awaited}
    /\ UNCHANGED <<data, program, saving, disk, crashes>>

(***************************************************************************)
(* A save                                                                  *)
(***************************************************************************)

\* createSnapshot copies an unordered_map node by node, while the clients'
\* threads change it.
Copy(s) ==
    /\ stage[s] = "copy"
    /\ \E k \in todo[s] :
          /\ snap' = [snap EXCEPT ![s][k] = strings[k]]
          /\ todo' = [todo EXCEPT ![s] = @ \ {k}]
          /\ stage' = [stage EXCEPT ![s] = IF todo[s] = {k} THEN "open" ELSE "copy"]
    /\ UNCHANGED <<data, looping, line, late, disk, timeouts, crashes>>

\* Mutant: a late save stays late.
Ends_StillLate(s) ==
    /\ stage' = [stage EXCEPT ![s] = "idle"]
    /\ snap' = [snap EXCEPT ![s] = Nothing]
    /\ todo' = [todo EXCEPT ![s] = {}]
    /\ line' = [line EXCEPT ![s] = 1]
    /\ UNCHANGED late

Ends(s) ==
    /\ stage' = [stage EXCEPT ![s] = "idle"]
    /\ snap' = [snap EXCEPT ![s] = Nothing]
    /\ todo' = [todo EXCEPT ![s] = {}]
    /\ line' = [line EXCEPT ![s] = 1]
    /\ late' = late \ {s}

\* The file cannot be opened (or the copy has thrown).
OpenFails(s) ==
    /\ stage[s] = "open"
    /\ Ends(s)
    /\ UNCHANGED <<data, looping, disk, timeouts, crashes>>

\* Mutant: the file is not emptied.
Open_InPlace(s) ==
    /\ stage[s] = "open"
    /\ stage' = [stage EXCEPT ![s] = "write"]
    /\ todo' = [todo EXCEPT ![s] = Keys]
    /\ file' = file
    /\ source' = snap[s]
    /\ mixed' = (Writing # {})
    /\ UNCHANGED <<data, looping, snap, line, late, timeouts, crashes>>

\* Opening an ofstream empties the file.
Open(s) ==
    /\ stage[s] = "open"
    /\ stage' = [stage EXCEPT ![s] = "write"]
    /\ todo' = [todo EXCEPT ![s] = Keys]
    /\ file' = <<>>
    /\ source' = snap[s]
    /\ mixed' = (Writing # {})
    /\ UNCHANGED <<data, looping, snap, line, late, timeouts, crashes>>

Advance(s) == line' = [line EXCEPT ![s] = @ + 1]

WriteHeader(s) ==
    /\ stage[s] = "write" /\ line[s] = 1
    /\ file' = Put(line[s], StringsLine)
    /\ Advance(s)
    /\ UNCHANGED <<data, looping, stage, snap, todo, late, source, mixed, timeouts, crashes>>

\* One turn of the loop over the strings.
WriteString(s) ==
    /\ stage[s] = "write" /\ line[s] > 1
    /\ \E k \in todo[s] :
          /\ todo' = [todo EXCEPT ![s] = @ \ {k}]
          /\ IF IsSaved(snap[s][k])
             THEN file' = Put(line[s], ItemLine(k, snap[s][k].value)) /\ Advance(s)
             ELSE UNCHANGED <<file, line>>
    /\ UNCHANGED <<data, looping, stage, snap, late, source, mixed, timeouts, crashes>>

\* The other sections; the file is closed.
WriteRest(s) ==
    /\ stage[s] = "write" /\ line[s] > 1 /\ todo[s] = {}
    /\ file' = Put(line[s], RestLine)
    /\ Ends(s)
    /\ UNCHANGED <<data, looping, source, mixed, timeouts, crashes>>

SaveStep(s) ==
    Copy(s) \/ Open(s) \/ OpenFails(s) \/ WriteHeader(s) \/ WriteString(s) \/ WriteRest(s)

LoopStep == (\E s \in Saves : Launch(s)) \/ LoopEnds \/ Ready

(***************************************************************************)
(* The process                                                             *)
(***************************************************************************)

Crash ==
    /\ program # "down" /\ crashes < MaxCrashes
    /\ crashes' = crashes + 1
    /\ program' = "down" /\ loop' = "off" /\ awaited' = NoSave
    /\ strings' = Nothing
    /\ stage' = [s \in Saves |-> "idle"]
    /\ snap' = [s \in Saves |-> Nothing]
    /\ todo' = [s \in Saves |-> {}]
    /\ line' = [s \in Saves |-> 1]
    /\ late' = {}
    /\ file' \in CutShort(file)
    /\ UNCHANGED <<now, writes, timeouts, source, mixed>>

\* The next process calls loadFromFile, which may fail to open the file.
Boot ==
    /\ program = "down"
    /\ program' = "up"
    /\ strings' \in {Loaded(file), Nothing}
    /\ UNCHANGED <<now, writes, loop, awaited, saving, late, disk, timeouts, crashes>>

Next ==
    \/ \E k \in Keys : \/ \E v \in Values : Set(k, v)
                       \/ \E d \in Deadlines : Expire(k, d)
                       \/ Sweep(k)
    \/ Tick
    \/ StartAuto \/ StopAuto \/ Joined
    \/ LoopStep \/ TimesOut
    \/ \E s \in Saves : SaveStep(s)
    \/ Crash \/ Boot

Spec == Init /\ [][Next]_vars

\* The threads run, time passes, and the file can be opened again and again.
\* A save may take longer than 30 seconds, but not each time (MaxTimeouts).
Fairness ==
    /\ WF_vars(LoopStep) /\ WF_vars(Joined) /\ WF_vars(Tick)
    /\ \A s \in Saves : WF_vars(SaveStep(s))
    /\ SF_vars(\E s \in Saves : Open(s))

FairSpec == Spec /\ Fairness

(***************************************************************************)
(* Properties                                                              *)
(***************************************************************************)

Lines == {StringsLine, RestLine, Hole} \cup {ItemLine(k, v) : k \in Keys, v \in Texts}

\* Every variable has its type, and the loop waits for a save exactly when
\* it is at its wait.
TypeOK ==
    /\ strings \in [Keys -> Items]
    /\ now \in 0..MaxTime
    /\ program \in {"up", "stopping", "down"}
    /\ loop \in {"off", "turn", "wait"}
    /\ awaited \in Saves \cup {NoSave}
    /\ awaited # NoSave <=> loop = "wait"
    /\ stage \in [Saves -> {"idle", "copy", "open", "write"}]
    /\ snap \in [Saves -> [Keys -> Items]]
    /\ todo \in [Saves -> SUBSET Keys]
    /\ line \in [Saves -> Nat \ {0}]
    /\ late \in SUBSET Busy
    /\ \A i \in DOMAIN file : file[i] \in Lines
    /\ source \in [Keys -> Items]
    /\ mixed \in BOOLEAN
    /\ writes \in 0..MaxWrites /\ timeouts \in 0..MaxTimeouts /\ crashes \in 0..MaxCrashes

\* Saves overlap only after a timeout: of those in time there is never more
\* than one, and when stopAutoPersistence has returned there is none.
SavesInTurn ==
    /\ Cardinality(Busy \ late) <= 1
    /\ loop = "off" => Busy \subseteq late

Complete == file # <<>> /\ file[Len(file)].kind = "rest"

\* The pair that the line of items[k] reads as.
ReadsAs(items, k) == Reads[<<k, items[k].value>>]

\* Whenever the process ends, what the next one loads comes from a single
\* save, the last one begun: each string is what the line of a string that
\* save copied reads as, but for one that may be cut short; after a complete
\* save none is missing that had no deadline.  (As long as saves do not
\* overlap and no line reads like a header.  A key with an '=' comes back as
\* another key, and may take that key's place.)
FileIsOneSave ==
    ~mixed =>
        LET back == Loaded(file) IN
        /\ \A k \in Keys :
              back[k].in => \E o \in Keys :
                               /\ source[o].in
                               /\ \/ <<k, back[k].value>> = ReadsAs(source, o)
                                  \/ <<k, back[k].value>> = Reads[<<o, Cut>>] /\ ~Complete
        /\ Complete =>
              \A o \in Keys :
                 source[o].in /\ ~source[o].expires => back[ReadsAs(source, o)[1]].in

\* While the loop runs, complete files come about again and again that hold
\* the strings of the store, as their lines read back, and none that has
\* expired, even when a save took too long and met the next one.  (The
\* clients' changes, the waits given up and the ends of the process all come
\* to an end here.)
EventuallySaved ==
    <>[](program = "up" /\ loop # "off") =>
        []<>(/\ Complete
             /\ LET lasting == {o \in Keys : strings[o].in /\ ~IsExpired(strings[o])}
                    kept == {ReadsAs(strings, o) : o \in lasting}
                    back == Loaded(file)
                IN \A k \in Keys :
                      IF back[k].in THEN <<k, back[k].value>> \in kept
                      ELSE \A r \in kept : r[1] # k)

=============================================================================
