---------------------------- MODULE SnapshotCache ----------------------------
(***************************************************************************)
(* The in-process copy of one row that every player of a room polls: the   *)
(* rooms row (room_state_cache.go) or a quiz's question list, which is the *)
(* same code.  A map holds one entry per key; a reader takes the entry,    *)
(* waits for its mutex, and loads the row when the copy is missing or past *)
(* its TTL.  A writer commits and then takes the entry out of the map.     *)
(***************************************************************************)
EXTENDS Naturals

CONSTANTS
    Readers,    \* requests that read the copy at a time
    Writers,    \* requests that write the row and then invalidate
    Entries,    \* entries alive at a time, in the map or only held by a reader
    MaxWrites,  \* bound on the writes
    NoCopy

ASSUME SnapshotAssumption == MaxWrites \in Nat /\ NoCopy \notin Nat \cup Entries \cup Readers

VARIABLES
    row,        \* the row in the database, as the number of its last write
    slot,       \* the entry in the map
    entry,      \* the entries
    reader,
    writing,    \* of a writer: the write it has committed and not invalidated yet
    announced   \* the last write that was invalidated

snapshotVars == <<row, slot, entry, reader, writing, announced>>

Entry == [copy: 0..MaxWrites \cup {NoCopy}, fresh: BOOLEAN, holder: Readers \cup {NoCopy}]
NoEntry == [copy |-> NoCopy, fresh |-> FALSE, holder |-> NoCopy]

\* since: the last write invalidated when the request began.
Reader == [step: {"idle", "waiting", "loading", "loaded", "served"},
           entry: Entries \cup {NoCopy}, got: 0..MaxWrites \cup {NoCopy}, since: 0..MaxWrites]
NoReader == [step |-> "idle", entry |-> NoCopy, got |-> NoCopy, since |-> 0]

SnapshotInit ==
    /\ row = 0
    /\ slot = NoCopy
    /\ entry = [e \in Entries |-> NoEntry]
    /\ reader = [r \in Readers |-> NoReader]
    /\ writing = [w \in Writers |-> NoCopy]
    /\ announced = 0

\* An entry out of the map lives on while a reader holds it.
Unreferenced == {e \in Entries : e # slot /\ \A r \in Readers : reader[r].entry # e}

Enter(r) ==
    /\ reader[r].step = "idle"
    /\ slot = NoCopy => Unreferenced # {}
    /\ LET e == IF slot = NoCopy THEN CHOOSE u \in Unreferenced : TRUE ELSE slot IN
        /\ slot' = e
        /\ entry' = IF slot = NoCopy THEN [entry EXCEPT ![e] = NoEntry] ELSE entry
        /\ reader' = [reader EXCEPT ![r] = [step |-> "waiting", entry |-> e,
                                            got |-> NoCopy, since |-> announced]]
    /\ UNCHANGED <<row, writing, announced>>

\* The mutex is ours: serve the copy, or go on to load under it.
Lock(r) ==
    LET e == reader[r].entry
    IN  /\ reader[r].step = "waiting" /\ entry[e].holder = NoCopy
        /\ IF entry[e].copy # NoCopy /\ entry[e].fresh
           THEN /\ reader' = [reader EXCEPT ![r].step = "served", ![r].got = entry[e].copy,
                                            ![r].entry = NoCopy]
                /\ UNCHANGED entry
           ELSE /\ reader' = [reader EXCEPT ![r].step = "loading"]
                /\ entry' = [entry EXCEPT ![e].holder = r]
        /\ UNCHANGED <<row, slot, writing, announced>>

LoadRow(r) ==
    /\ reader[r].step = "loading"
    /\ reader' = [reader EXCEPT ![r].step = "loaded", ![r].got = row]
    /\ UNCHANGED <<row, slot, entry, writing, announced>>

Store(r) ==
    /\ reader[r].step = "loaded"
    /\ entry' = [entry EXCEPT ![reader[r].entry] =
                    [copy |-> reader[r].got, fresh |-> TRUE, holder |-> NoCopy]]
    /\ reader' = [reader EXCEPT ![r].step = "served", ![r].entry = NoCopy]
    /\ UNCHANGED <<row, slot, writing, announced>>

\* A read that fails drops whatever entry is in the map; that of the questions leaves
\* it there.
LoadFails(r) ==
    /\ reader[r].step = "loading"
    /\ slot' \in {slot, NoCopy}
    /\ entry' = [entry EXCEPT ![reader[r].entry].holder = NoCopy]
    /\ reader' = [reader EXCEPT ![r] = NoReader]
    /\ UNCHANGED <<row, writing, announced>>

Leave(r) ==
    /\ reader[r].step = "served"
    /\ reader' = [reader EXCEPT ![r] = NoReader]
    /\ UNCHANGED <<row, slot, entry, writing, announced>>

\* A writer of the package commits, and calls invalidateRoomState after that.
Commit(w) ==
    /\ writing[w] = NoCopy /\ row < MaxWrites
    /\ row' = row + 1
    /\ writing' = [writing EXCEPT ![w] = row + 1]
    /\ UNCHANGED <<slot, entry, reader, announced>>

Announce(w) ==
    /\ announced' = IF announced < writing[w] THEN writing[w] ELSE announced
    /\ writing' = [writing EXCEPT ![w] = NoCopy]

\* Mutant: the copy is cleared and the entry stays in the map.
InvalidateInPlace(w) ==
    /\ writing[w] # NoCopy
    /\ entry' = IF slot = NoCopy THEN entry ELSE [entry EXCEPT ![slot].copy = NoCopy]
    /\ Announce(w)
    /\ UNCHANGED <<row, slot, reader>>

Invalidate(w) ==
    /\ writing[w] # NoCopy
    /\ slot' = NoCopy
    /\ Announce(w)
    /\ UNCHANGED <<row, entry, reader>>

\* The abandoned-room cron and the licence sweep write the row and leave the copy.
ForeignCommit ==
    /\ row < MaxWrites
    /\ row' = row + 1
    /\ UNCHANGED <<slot, entry, reader, writing, announced>>

\* The TTL passes; later, a load of another room sweeps the idle entry out.
Ages(e) ==
    /\ entry[e].fresh /\ e \notin Unreferenced
    /\ entry' = [entry EXCEPT ![e].fresh = FALSE]
    /\ UNCHANGED <<row, slot, reader, writing, announced>>

Sweep ==
    /\ slot # NoCopy
    /\ entry[slot].holder = NoCopy /\ ~entry[slot].fresh
    /\ slot' = NoCopy
    /\ UNCHANGED <<row, entry, reader, writing, announced>>

SnapshotNext ==
    \/ \E r \in Readers : Enter(r) \/ Lock(r) \/ LoadRow(r) \/ Store(r) \/ LoadFails(r) \/ Leave(r)
    \/ \E w \in Writers : Commit(w) \/ Invalidate(w)
    \/ \E e \in Entries : Ages(e)
    \/ ForeignCommit \/ Sweep

SnapshotSpec == SnapshotInit /\ [][SnapshotNext]_snapshotVars

SnapshotTypeOK ==
    /\ row \in 0..MaxWrites /\ announced \in 0..MaxWrites
    /\ slot \in Entries \cup {NoCopy}
    /\ entry \in [Entries -> Entry]
    /\ reader \in [Readers -> Reader]
    /\ writing \in [Writers -> 0..MaxWrites \cup {NoCopy}]

\* A request that begins after a write was invalidated is served that write or a later
\* one, also while loads begun before it are still storing (invalidateRoomState).
ReadsSeeInvalidatedWrites ==
    \A r \in Readers : reader[r].step = "served" => reader[r].got >= reader[r].since
==============================================================================
