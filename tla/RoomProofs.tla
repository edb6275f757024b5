----------------------------- MODULE RoomProofs -----------------------------
(***************************************************************************)
(* What a room shows the many who look at it at once, for any number of    *)
(* them: the row every player polls, from a copy (SnapshotCache); the      *)
(* results and boards built from a room's rows (Results); and, before the  *)
(* game, the seats of its lobby (Lobby).                                   *)
(***************************************************************************)
EXTENDS SnapshotCache, Results, Lobby, FiniteSetTheorems, TLAPS

\* Whatever an entry holds, or a reader is about to store in it, is write n or later.
Covers(e, n) ==
    /\ entry[e].copy # NoCopy => entry[e].copy >= n
    /\ \A h \in Readers : reader[h].step = "loaded" /\ reader[h].entry = e => reader[h].got >= n

\* What a reader's step says of its fields.
ReaderInv ==
    /\ announced <= row
    /\ \A w \in Writers : writing[w] # NoCopy => writing[w] <= row
    /\ \A r \in Readers :
          /\ reader[r].since <= announced
          /\ reader[r].step \in {"waiting", "loading", "loaded"} => reader[r].entry \in Entries
          /\ reader[r].step \in {"loaded", "served"} =>
                reader[r].got \in Nat /\ reader[r].got >= reader[r].since

\* The entry in the map covers what was invalidated so far, an entry out of the map what
\* was invalidated when its waiting readers began.
CopyInv ==
    /\ slot # NoCopy => Covers(slot, announced)
    /\ \A r \in Readers : reader[r].step = "waiting" => Covers(reader[r].entry, reader[r].since)

SnapshotInv == SnapshotTypeOK /\ ReaderInv /\ CopyInv

-----------------------------------------------------------------------------
(* Readers and entries: what each step leaves of them.                     *)

LEMMA ReaderTypes ==
    /\ NoReader \in Reader /\ NoReader.step = "idle" /\ NoReader.since = 0
    /\ NoEntry \in Entry /\ NoEntry.copy = NoCopy
<1>1. 0 \in 0..MaxWrites
  BY SnapshotAssumption
<1>2. NoReader \in Reader /\ NoReader.step = "idle" /\ NoReader.since = 0
  BY <1>1 DEF NoReader, Reader
<1>3. NoEntry \in Entry /\ NoEntry.copy = NoCopy
  BY DEF NoEntry, Entry
<1> QED BY <1>2, <1>3

\* The other readers stand still.
Alone(r) == \A s \in Readers \ {r} : reader'[s] = reader[s]

LEMMA ReaderWritten ==
    ASSUME SnapshotTypeOK, NEW r \in Readers, NEW new \in Reader,
           reader' = [reader EXCEPT ![r] = new]
    PROVE  reader' \in [Readers -> Reader] /\ reader'[r] = new /\ Alone(r)
BY DEF SnapshotTypeOK, Alone

LEMMA EntryWritten ==
    ASSUME SnapshotTypeOK, NEW e \in Entries, NEW new \in Entry, entry' = [entry EXCEPT ![e] = new]
    PROVE  /\ entry' \in [Entries -> Entry] /\ entry'[e] = new
           /\ \A f \in Entries \ {e} : entry'[f] = entry[f]
BY DEF SnapshotTypeOK

\* A request takes the entry in the map, or a new one that nobody holds.
LEMMA Enters ==
    ASSUME SnapshotTypeOK, NEW r \in Readers, Enter(r)
    PROVE  \E e \in Entries :
              /\ slot' = e
              /\ reader' \in [Readers -> Reader] /\ Alone(r)
              /\ reader'[r].step = "waiting" /\ reader'[r].entry = e
              /\ reader'[r].since = announced
              /\ entry' \in [Entries -> Entry] /\ \A f \in Entries \ {e} : entry'[f] = entry[f]
              /\ \/ slot = e /\ entry' = entry
                 \/ entry'[e].copy = NoCopy /\ \A s \in Readers : reader[s].entry # e
<1> DEFINE e == IF slot = NoCopy THEN CHOOSE u \in Unreferenced : TRUE ELSE slot
           new == [step |-> "waiting", entry |-> e, got |-> NoCopy, since |-> announced]
<1>1. slot = NoCopy => (CHOOSE u \in Unreferenced : TRUE) \in Unreferenced
  BY DEF Enter
<1>2. e \in Entries /\ (slot = NoCopy => e \in Unreferenced)
  BY <1>1 DEF SnapshotTypeOK, Unreferenced
<1>3. new \in Reader /\ new.step = "waiting" /\ new.entry = e /\ new.since = announced
  BY <1>2 DEF SnapshotTypeOK, Reader
<1>4. /\ slot' = e /\ reader' = [reader EXCEPT ![r] = new]
      /\ entry' = IF slot = NoCopy THEN [entry EXCEPT ![e] = NoEntry] ELSE entry
  BY DEF Enter
<1>5. reader' \in [Readers -> Reader] /\ reader'[r] = new /\ Alone(r)
  <2> HIDE DEF new
  <2> QED BY <1>3, <1>4, ReaderWritten
<1>6. CASE slot = NoCopy
  <2> HIDE DEF e
  <2>1. entry' = [entry EXCEPT ![e] = NoEntry]
    BY <1>4, <1>6
  <2>2. /\ entry' \in [Entries -> Entry] /\ entry'[e] = NoEntry
        /\ \A f \in Entries \ {e} : entry'[f] = entry[f]
    BY <1>2, <2>1, ReaderTypes, EntryWritten
  <2>3. \A s \in Readers : reader[s].entry # e
    BY <1>2, <1>6 DEF Unreferenced
  <2> QED BY <1>2, <1>3, <1>4, <1>5, <2>2, <2>3, ReaderTypes
<1>7. CASE slot # NoCopy
  <2>1. entry' = entry /\ slot = e
    BY <1>4, <1>7
  <2> HIDE DEF e
  <2> QED BY <1>2, <1>3, <1>4, <1>5, <2>1 DEF SnapshotTypeOK
<1> QED BY <1>6, <1>7

\* A request has the mutex: it is served the copy, or goes on to load.
LEMMA LockStates ==
    ASSUME SnapshotTypeOK, ReaderInv, NEW r \in Readers, Lock(r)
    PROVE  /\ reader[r].step = "waiting" /\ reader[r].entry \in Entries
           /\ reader' \in [Readers -> Reader] /\ Alone(r) /\ reader'[r].since = reader[r].since
           /\ \/ /\ reader'[r].step = "served"
                 /\ reader'[r].got = entry[reader[r].entry].copy
                 /\ entry[reader[r].entry].copy # NoCopy
              \/ reader'[r].step = "loading" /\ reader'[r].entry = reader[r].entry
           /\ entry' \in [Entries -> Entry]
           /\ \A e \in Entries : entry'[e].copy = entry[e].copy
<1> DEFINE e == reader[r].entry
           served == [reader[r] EXCEPT !.step = "served", !.got = entry[e].copy, !.entry = NoCopy]
           loading == [reader[r] EXCEPT !.step = "loading"]
           held == [entry[e] EXCEPT !.holder = r]
<1>1. reader[r].step = "waiting" /\ e \in Entries
  BY DEF Lock, ReaderInv
<1>2. reader[r] \in Reader /\ entry[e] \in Entry /\ entry[e].copy \in 0..MaxWrites \cup {NoCopy}
  BY <1>1 DEF SnapshotTypeOK, Entry
<1>3. /\ served \in Reader /\ loading \in Reader
      /\ served.step = "served" /\ served.got = entry[e].copy /\ served.since = reader[r].since
      /\ loading.step = "loading" /\ loading.entry = e /\ loading.since = reader[r].since
  BY <1>2 DEF Reader
<1>4. held \in Entry
  BY <1>2, Zenon DEF Entry
<1>5. held.copy = entry[e].copy
  BY <1>2 DEF Entry
<1>6. CASE entry[e].copy # NoCopy /\ entry[e].fresh
  <2>1. reader' = [reader EXCEPT ![r] = served]
    BY <1>6, <1>2 DEF Lock, SnapshotTypeOK, Reader
  <2>2. entry' = entry
    BY <1>6 DEF Lock
  <2> HIDE DEF served
  <2> QED BY <1>1, <1>3, <1>6, <2>1, <2>2, ReaderWritten DEF SnapshotTypeOK
<1>7. CASE ~(entry[e].copy # NoCopy /\ entry[e].fresh)
  <2>1. reader' = [reader EXCEPT ![r] = loading] /\ entry' = [entry EXCEPT ![e] = held]
    BY <1>1, <1>2, <1>7 DEF Lock, SnapshotTypeOK, Reader, Entry
  <2> HIDE DEF loading, held
  <2> QED BY <1>1, <1>3, <1>4, <1>5, <2>1, ReaderWritten, EntryWritten
<1> QED BY <1>6, <1>7

LEMMA Loads ==
    ASSUME SnapshotTypeOK, NEW r \in Readers, LoadRow(r)
    PROVE  /\ reader[r].step = "loading"
           /\ reader' \in [Readers -> Reader] /\ Alone(r)
           /\ reader'[r].step = "loaded" /\ reader'[r].got = row
           /\ reader'[r].entry = reader[r].entry /\ reader'[r].since = reader[r].since
<1> DEFINE new == [reader[r] EXCEPT !.step = "loaded", !.got = row]
<1>1. reader[r] \in Reader /\ row \in 0..MaxWrites
  BY DEF SnapshotTypeOK
<1>2. /\ new \in Reader /\ new.step = "loaded" /\ new.got = row
      /\ new.entry = reader[r].entry /\ new.since = reader[r].since
  BY <1>1 DEF Reader
<1>3. reader' = [reader EXCEPT ![r] = new]
  BY <1>1 DEF LoadRow, SnapshotTypeOK, Reader
<1> HIDE DEF new
<1> QED BY <1>2, <1>3, ReaderWritten DEF LoadRow

LEMMA StoresCopy ==
    ASSUME SnapshotTypeOK, ReaderInv, NEW r \in Readers, Store(r)
    PROVE  /\ reader[r].step = "loaded" /\ reader[r].entry \in Entries
           /\ reader' \in [Readers -> Reader] /\ Alone(r)
           /\ reader'[r].step = "served" /\ reader'[r].got = reader[r].got
           /\ reader'[r].since = reader[r].since
           /\ entry' \in [Entries -> Entry] /\ entry'[reader[r].entry].copy = reader[r].got
           /\ \A f \in Entries \ {reader[r].entry} : entry'[f] = entry[f]
<1> DEFINE served == [reader[r] EXCEPT !.step = "served", !.entry = NoCopy]
           stored == [copy |-> reader[r].got, fresh |-> TRUE, holder |-> NoCopy]
<1>1. reader[r].step = "loaded" /\ reader[r].entry \in Entries
  BY DEF Store, ReaderInv
<1>2. reader[r] \in Reader
  BY DEF SnapshotTypeOK
<1>3. /\ served \in Reader /\ served.step = "served" /\ served.got = reader[r].got
      /\ served.since = reader[r].since
  BY <1>2 DEF Reader
<1>4. stored \in Entry /\ stored.copy = reader[r].got
  BY <1>2 DEF Reader, Entry
<1>5. reader' = [reader EXCEPT ![r] = served] /\ entry' = [entry EXCEPT ![reader[r].entry] = stored]
  BY <1>2 DEF Store, SnapshotTypeOK, Reader
<1> HIDE DEF served, stored
<1> QED BY <1>1, <1>3, <1>4, <1>5, ReaderWritten, EntryWritten

\* A load that failed, and a request that has its answer.
LEMMA Goes ==
    ASSUME SnapshotTypeOK, ReaderInv, NEW r \in Readers, LoadFails(r) \/ Leave(r)
    PROVE  /\ reader' \in [Readers -> Reader] /\ Alone(r)
           /\ reader'[r].step = "idle" /\ reader'[r].since = 0
           /\ entry' \in [Entries -> Entry]
           /\ \A e \in Entries : entry'[e].copy = entry[e].copy
           /\ slot' \in {slot, NoCopy} /\ UNCHANGED <<row, writing, announced>>
<1> DEFINE e == reader[r].entry
           left == [entry[e] EXCEPT !.holder = NoCopy]
<1>1. reader' = [reader EXCEPT ![r] = NoReader]
  BY DEF LoadFails, Leave
<1>2. reader' \in [Readers -> Reader] /\ Alone(r) /\ reader'[r] = NoReader
  BY <1>1, ReaderTypes, ReaderWritten
<1>3. CASE LoadFails(r)
  <2>1. e \in Entries
    BY <1>3 DEF LoadFails, ReaderInv
  <2>2. entry[e] \in Entry
    BY <2>1 DEF SnapshotTypeOK
  <2>3. left \in Entry
    BY <2>2, Zenon DEF Entry
  <2>4. left.copy = entry[e].copy
    BY <2>2 DEF Entry
  <2>5. entry' = [entry EXCEPT ![e] = left]
    BY <1>3, <2>1, <2>2 DEF LoadFails, SnapshotTypeOK, Entry
  <2>6. slot' \in {slot, NoCopy} /\ UNCHANGED <<row, writing, announced>>
    BY <1>3 DEF LoadFails
  <2> HIDE DEF left
  <2> QED BY <1>2, <2>1, <2>3, <2>4, <2>5, <2>6, ReaderTypes, EntryWritten
<1>4. CASE Leave(r)
  BY <1>2, <1>4, ReaderTypes DEF Leave, SnapshotTypeOK
<1> QED BY <1>3, <1>4

LEMMA AgesCopies ==
    ASSUME SnapshotTypeOK, NEW e \in Entries, Ages(e)
    PROVE  /\ entry' \in [Entries -> Entry]
           /\ \A f \in Entries : entry'[f].copy = entry[f].copy
<1> DEFINE old == [entry[e] EXCEPT !.fresh = FALSE]
<1>1. entry[e] \in Entry
  BY DEF SnapshotTypeOK
<1>2. old \in Entry
  BY <1>1, Zenon DEF Entry
<1>3. old.copy = entry[e].copy
  BY <1>1 DEF Entry
<1>4. entry' = [entry EXCEPT ![e] = old]
  BY <1>1 DEF Ages, SnapshotTypeOK, Entry
<1> HIDE DEF old
<1> QED BY <1>2, <1>3, <1>4, EntryWritten

-----------------------------------------------------------------------------
(* What an entry covers survives the steps that store nothing older in it. *)

\* No reader comes to be about to store in e.
NoNewLoad(e) ==
    \A h \in Readers : reader'[h].step = "loaded" /\ reader'[h].entry = e =>
        reader[h].step = "loaded" /\ reader[h].entry = e /\ reader'[h].got = reader[h].got

LEMMA CoversKept ==
    ASSUME NEW e, NEW n, Covers(e, n), entry'[e].copy = entry[e].copy, NoNewLoad(e)
    PROVE  /\ entry'[e].copy # NoCopy => entry'[e].copy >= n
           /\ \A h \in Readers :
                 reader'[h].step = "loaded" /\ reader'[h].entry = e => reader'[h].got >= n
BY DEF Covers, NoNewLoad

\* The map keeps its entry or loses it, nothing is stored, no request begins.
LEMMA CopiesKept ==
    ASSUME ReaderInv, CopyInv, slot \in Entries \cup {NoCopy},
           \A e \in Entries : entry'[e].copy = entry[e].copy,
           \A e \in Entries : NoNewLoad(e),
           slot' = NoCopy \/ (slot' = slot /\ announced' = announced),
           \A r \in Readers : reader'[r].step = "waiting" => reader'[r] = reader[r]
    PROVE  CopyInv'
<1>1. slot' # NoCopy => Covers(slot, announced)'
  <2>1. SUFFICES ASSUME slot' # NoCopy
                 PROVE  Covers(slot, announced)'
    OBVIOUS
  <2>2. slot' = slot /\ announced' = announced /\ slot \in Entries /\ Covers(slot, announced)
    BY <2>1 DEF CopyInv
  <2> QED BY <2>2, CoversKept DEF Covers
<1>2. ASSUME NEW r \in Readers, reader'[r].step = "waiting"
      PROVE  Covers(reader[r].entry, reader[r].since)'
  <2>1. /\ reader'[r] = reader[r] /\ reader[r].entry \in Entries
        /\ Covers(reader[r].entry, reader[r].since)
    BY <1>2 DEF ReaderInv, CopyInv
  <2> QED BY <2>1, CoversKept DEF Covers
<1> QED BY <1>1, <1>2 DEF CopyInv

-----------------------------------------------------------------------------
(* Each step keeps the invariant.                                          *)

SnapshotKept == SnapshotTypeOK' /\ ReaderInv' /\ CopyInv'

LEMMA EnterKeeps ==
    ASSUME SnapshotInv, NEW r \in Readers, Enter(r)
    PROVE  SnapshotKept
<1>1. UNCHANGED <<row, writing, announced>>
  BY DEF Enter
<1>2. PICK e \in Entries :
         /\ slot' = e
         /\ reader' \in [Readers -> Reader] /\ Alone(r)
         /\ reader'[r].step = "waiting" /\ reader'[r].entry = e
         /\ reader'[r].since = announced
         /\ entry' \in [Entries -> Entry] /\ \A f \in Entries \ {e} : entry'[f] = entry[f]
         /\ \/ slot = e /\ entry' = entry
            \/ entry'[e].copy = NoCopy /\ \A s \in Readers : reader[s].entry # e
  BY Enters DEF SnapshotInv
<1>3. SnapshotTypeOK'
  BY <1>1, <1>2 DEF SnapshotInv, SnapshotTypeOK
<1>4. ReaderInv'
  <2>1. announced \in Nat
    BY SnapshotAssumption DEF SnapshotInv, SnapshotTypeOK
  <2> QED BY <1>1, <1>2, <2>1 DEF SnapshotInv, ReaderInv, Alone
<1>5. \A f \in Entries : NoNewLoad(f)
  BY <1>2 DEF NoNewLoad, Alone
<1>6. Covers(slot, announced)' /\ Covers(reader[r].entry, reader[r].since)'
  <2>1. CASE slot = e /\ entry' = entry
    <3>1. e # NoCopy /\ Covers(e, announced)
      BY <2>1, SnapshotAssumption DEF SnapshotInv, CopyInv
    <3> QED BY <1>1, <1>2, <1>5, <2>1, <3>1, CoversKept DEF Covers
  <2>2. CASE entry'[e].copy = NoCopy /\ \A s \in Readers : reader[s].entry # e
    <3>1. \A h \in Readers : ~(reader'[h].step = "loaded" /\ reader'[h].entry = e)
      BY <1>2, <2>2 DEF Alone
    <3> QED BY <1>1, <1>2, <2>2, <3>1 DEF Covers
  <2> QED BY <1>2, <2>1, <2>2
<1>7. ASSUME NEW s \in Readers \ {r}, reader'[s].step = "waiting"
      PROVE  Covers(reader[s].entry, reader[s].since)'
  <2>1. /\ reader'[s] = reader[s] /\ reader[s].entry \in Entries
        /\ Covers(reader[s].entry, reader[s].since)
    BY <1>2, <1>7 DEF Alone, SnapshotInv, ReaderInv, CopyInv
  <2>2. entry'[reader[s].entry].copy = entry[reader[s].entry].copy
    BY <1>2, <2>1
  <2> QED BY <1>5, <2>1, <2>2, CoversKept DEF Covers
<1>8. CopyInv'
  BY <1>6, <1>7 DEF CopyInv
<1> QED BY <1>3, <1>4, <1>8 DEF SnapshotKept

LEMMA LockKeeps ==
    ASSUME SnapshotInv, NEW r \in Readers, Lock(r)
    PROVE  SnapshotKept
<1>1. UNCHANGED <<row, slot, writing, announced>>
  BY DEF Lock
<1>2. /\ reader[r].step = "waiting" /\ reader[r].entry \in Entries
      /\ reader' \in [Readers -> Reader] /\ Alone(r) /\ reader'[r].since = reader[r].since
      /\ \/ /\ reader'[r].step = "served"
            /\ reader'[r].got = entry[reader[r].entry].copy
            /\ entry[reader[r].entry].copy # NoCopy
         \/ reader'[r].step = "loading" /\ reader'[r].entry = reader[r].entry
      /\ entry' \in [Entries -> Entry]
      /\ \A e \in Entries : entry'[e].copy = entry[e].copy
  BY LockStates DEF SnapshotInv
<1>3. SnapshotTypeOK'
  BY <1>1, <1>2 DEF SnapshotInv, SnapshotTypeOK
<1>4. /\ entry[reader[r].entry].copy \in 0..MaxWrites \cup {NoCopy}
      /\ Covers(reader[r].entry, reader[r].since)
  BY <1>2 DEF SnapshotInv, SnapshotTypeOK, Entry, CopyInv
<1>5. ReaderInv'
  BY <1>1, <1>2, <1>4, SnapshotAssumption DEF SnapshotInv, ReaderInv, Alone, Covers
<1>6. CopyInv'
  <2>1. \A e \in Entries : NoNewLoad(e)
    BY <1>2 DEF NoNewLoad, Alone
  <2>2. \A s \in Readers : reader'[s].step = "waiting" => reader'[s] = reader[s]
    BY <1>2 DEF Alone
  <2>3. slot \in Entries \cup {NoCopy}
    BY DEF SnapshotInv, SnapshotTypeOK
  <2> QED BY <1>1, <1>2, <2>1, <2>2, <2>3, CopiesKept DEF SnapshotInv
<1> QED BY <1>3, <1>5, <1>6 DEF SnapshotKept

LEMMA LoadRowKeeps ==
    ASSUME SnapshotInv, NEW r \in Readers, LoadRow(r)
    PROVE  SnapshotKept
<1>1. UNCHANGED <<row, slot, entry, writing, announced>>
  BY DEF LoadRow
<1>2. /\ reader[r].step = "loading"
      /\ reader' \in [Readers -> Reader] /\ Alone(r)
      /\ reader'[r].step = "loaded" /\ reader'[r].got = row
      /\ reader'[r].entry = reader[r].entry /\ reader'[r].since = reader[r].since
  BY Loads DEF SnapshotInv
<1>3. SnapshotTypeOK'
  BY <1>1, <1>2 DEF SnapshotInv, SnapshotTypeOK
<1>4. row \in Nat /\ announced \in Nat /\ announced <= row
      /\ \A s \in Readers : reader[s].since \in Nat /\ reader[s].since <= announced
  BY SnapshotAssumption DEF SnapshotInv, SnapshotTypeOK, ReaderInv, Reader
<1>5. ReaderInv'
  BY <1>1, <1>2, <1>4 DEF SnapshotInv, ReaderInv, Alone
<1>6. ASSUME NEW e, NEW n \in Nat, n <= row, Covers(e, n)
      PROVE  \A h \in Readers :
                reader'[h].step = "loaded" /\ reader'[h].entry = e => reader'[h].got >= n
  BY <1>2, <1>4, <1>6 DEF Covers, Alone
<1>7. slot' # NoCopy => Covers(slot, announced)'
  BY <1>1, <1>4, <1>6 DEF SnapshotInv, CopyInv, Covers
<1>8. ASSUME NEW s \in Readers, reader'[s].step = "waiting"
      PROVE  Covers(reader[s].entry, reader[s].since)'
  <2>1. reader'[s] = reader[s] /\ Covers(reader[s].entry, reader[s].since)
    BY <1>2, <1>8 DEF Alone, SnapshotInv, CopyInv
  <2>2. reader[s].since \in Nat /\ reader[s].since <= row
    BY <1>4
  <2> QED BY <1>1, <1>6, <2>1, <2>2 DEF Covers
<1>9. CopyInv'
  BY <1>7, <1>8 DEF CopyInv
<1> QED BY <1>3, <1>5, <1>9 DEF SnapshotKept

LEMMA StoreKeeps ==
    ASSUME SnapshotInv, NEW r \in Readers, Store(r)
    PROVE  SnapshotKept
<1> DEFINE e == reader[r].entry
<1>1. UNCHANGED <<row, slot, writing, announced>>
  BY DEF Store
<1>2. /\ reader[r].step = "loaded" /\ e \in Entries
      /\ reader' \in [Readers -> Reader] /\ Alone(r)
      /\ reader'[r].step = "served" /\ reader'[r].got = reader[r].got
      /\ reader'[r].since = reader[r].since
      /\ entry' \in [Entries -> Entry] /\ entry'[e].copy = reader[r].got
      /\ \A f \in Entries \ {e} : entry'[f] = entry[f]
  BY StoresCopy DEF SnapshotInv
<1>3. SnapshotTypeOK'
  BY <1>1, <1>2 DEF SnapshotInv, SnapshotTypeOK
<1>4. ReaderInv'
  BY <1>1, <1>2 DEF SnapshotInv, ReaderInv, Alone
<1>5. ASSUME NEW f \in Entries, NEW n, Covers(f, n)
      PROVE  /\ entry'[f].copy # NoCopy => entry'[f].copy >= n
             /\ \A h \in Readers :
                   reader'[h].step = "loaded" /\ reader'[h].entry = f => reader'[h].got >= n
  BY <1>2, <1>5 DEF Covers, Alone
<1>6. slot' # NoCopy => Covers(slot, announced)'
  BY <1>1, <1>5 DEF SnapshotInv, SnapshotTypeOK, CopyInv, Covers
<1>7. ASSUME NEW s \in Readers, reader'[s].step = "waiting"
      PROVE  Covers(reader[s].entry, reader[s].since)'
  <2>1. /\ reader'[s] = reader[s] /\ reader[s].entry \in Entries
        /\ Covers(reader[s].entry, reader[s].since)
    BY <1>2, <1>7 DEF Alone, SnapshotInv, ReaderInv, CopyInv
  <2> QED BY <1>5, <2>1 DEF Covers
<1>8. CopyInv'
  BY <1>6, <1>7 DEF CopyInv
<1> QED BY <1>3, <1>4, <1>8 DEF SnapshotKept

LEMMA GoesKeeps ==
    ASSUME SnapshotInv, NEW r \in Readers, LoadFails(r) \/ Leave(r)
    PROVE  SnapshotKept
<1>1. /\ reader' \in [Readers -> Reader] /\ Alone(r)
      /\ reader'[r].step = "idle" /\ reader'[r].since = 0
      /\ entry' \in [Entries -> Entry]
      /\ \A e \in Entries : entry'[e].copy = entry[e].copy
      /\ slot' \in {slot, NoCopy} /\ UNCHANGED <<row, writing, announced>>
  BY Goes DEF SnapshotInv
<1>2. SnapshotTypeOK'
  BY <1>1 DEF SnapshotInv, SnapshotTypeOK
<1>3. ReaderInv'
  <2>1. announced \in Nat
    BY SnapshotAssumption DEF SnapshotInv, SnapshotTypeOK
  <2> QED BY <1>1, <2>1 DEF SnapshotInv, ReaderInv, Alone
<1>4. CopyInv'
  <2>1. \A e \in Entries : NoNewLoad(e)
    BY <1>1 DEF NoNewLoad, Alone
  <2>2. \A s \in Readers : reader'[s].step = "waiting" => reader'[s] = reader[s]
    BY <1>1 DEF Alone
  <2>3. slot \in Entries \cup {NoCopy}
    BY DEF SnapshotInv, SnapshotTypeOK
  <2> QED BY <1>1, <2>1, <2>2, <2>3, CopiesKept DEF SnapshotInv
<1> QED BY <1>2, <1>3, <1>4 DEF SnapshotKept

\* The steps of the writers, the clock and the sweep: no reader moves.
LEMMA OthersKeep ==
    ASSUME SnapshotInv,
           \/ ForeignCommit \/ Sweep \/ UNCHANGED snapshotVars
           \/ \E w \in Writers : Commit(w) \/ Invalidate(w)
           \/ \E e \in Entries : Ages(e)
    PROVE  SnapshotKept
<1>1. /\ row \in Nat /\ announced \in Nat /\ announced <= row /\ row <= MaxWrites
      /\ MaxWrites \in Nat /\ slot \in Entries \cup {NoCopy}
      /\ \A w \in Writers : writing[w] \in Nat \cup {NoCopy}
      /\ \A r \in Readers : reader[r].since \in Nat
  BY SnapshotAssumption DEF SnapshotInv, SnapshotTypeOK, ReaderInv, Reader
<1>2. reader' = reader
  BY DEF ForeignCommit, Sweep, snapshotVars, Commit, Invalidate, Ages
<1>3. entry' \in [Entries -> Entry] /\ \A e \in Entries : entry'[e].copy = entry[e].copy
  BY AgesCopies DEF ForeignCommit, Sweep, snapshotVars, Commit, Invalidate, SnapshotInv, SnapshotTypeOK
<1>4. /\ slot' = NoCopy \/ (slot' = slot /\ announced' = announced)
      /\ announced <= announced' /\ announced' <= row' /\ row' \in 0..MaxWrites
      /\ announced' \in 0..MaxWrites
      /\ writing' \in [Writers -> 0..MaxWrites \cup {NoCopy}]
      /\ \A w \in Writers : writing'[w] # NoCopy => writing'[w] <= row'
  <2>1. /\ writing \in [Writers -> 0..MaxWrites \cup {NoCopy}]
        /\ \A w \in Writers : writing[w] # NoCopy => writing[w] <= row
    BY DEF SnapshotInv, SnapshotTypeOK, ReaderInv
  <2> QED BY <1>1, <2>1 DEF ForeignCommit, Sweep, snapshotVars, Commit, Invalidate, Announce, Ages
<1>5. SnapshotTypeOK'
  BY <1>1, <1>2, <1>3, <1>4 DEF SnapshotInv, SnapshotTypeOK
<1>6. ReaderInv'
  BY <1>1, <1>2, <1>4 DEF SnapshotInv, ReaderInv
<1>7. CopyInv'
  <2>1. \A e \in Entries : NoNewLoad(e)
    BY <1>2 DEF NoNewLoad
  <2> QED BY <1>1, <1>2, <1>3, <1>4, <2>1, CopiesKept DEF SnapshotInv
<1> QED BY <1>5, <1>6, <1>7 DEF SnapshotKept

-----------------------------------------------------------------------------
(* The polled row.                                                         *)

LEMMA SnapshotInitInv == SnapshotInit => SnapshotInv
<1> SUFFICES ASSUME SnapshotInit
             PROVE  SnapshotInv
  OBVIOUS
<1>1. \A r \in Readers : reader[r].step = "idle" /\ reader[r].since = 0
  BY ReaderTypes DEF SnapshotInit
<1>2. SnapshotTypeOK
  BY ReaderTypes, SnapshotAssumption DEF SnapshotInit, SnapshotTypeOK
<1>3. ReaderInv
  BY <1>1 DEF SnapshotInit, ReaderInv
<1>4. CopyInv
  BY <1>1 DEF SnapshotInit, CopyInv
<1> QED BY <1>2, <1>3, <1>4 DEF SnapshotInv

\* The entry a reader waits for never falls behind the writes invalidated before it came.
THEOREM SnapshotInvariant == SnapshotSpec => []SnapshotInv
<1>1. ASSUME SnapshotInv, [SnapshotNext]_snapshotVars
      PROVE  SnapshotKept
  BY <1>1, EnterKeeps, LockKeeps, LoadRowKeeps, StoreKeeps, GoesKeeps, OthersKeep DEF SnapshotNext
<1>2. SnapshotInv /\ [SnapshotNext]_snapshotVars => SnapshotInv'
  BY <1>1 DEF SnapshotKept, SnapshotInv
<1> QED BY <1>2, SnapshotInitInv, PTL DEF SnapshotSpec

\* A request that begins after invalidateRoomState is served what was written before it,
\* or something later, even by an entry that left the map while others waited for it.
THEOREM ReadsAreCurrent == SnapshotSpec => []ReadsSeeInvalidatedWrites
<1>1. SnapshotInv => ReadsSeeInvalidatedWrites
  BY DEF SnapshotInv, ReaderInv, ReadsSeeInvalidatedWrites
<1> QED BY <1>1, SnapshotInvariant, PTL

-----------------------------------------------------------------------------
(* Results.                                                                *)

\* Who found the archive never goes on to the live rows, and only an archive is stored.
RosterInv ==
    /\ cached # "empty"
    /\ \A v \in Viewers :
          /\ viewer[v].late => room.archive = "full" /\ viewer[v].step # "rows"
          /\ viewer[v].step \in {"idle", "missed"} => ~viewer[v].late
          /\ viewer[v].step = "store" => viewer[v].roster = "full"
          /\ viewer[v].late /\ viewer[v].step = "answered" => viewer[v].roster = "full"

\* A board is older than the scores, which only rise.
BoardInv == board # NoRoster => \A p \in Players : board[p] <= score[p]

ResultsInv == ResultsTypeOK /\ RosterInv /\ BoardInv

LEMMA ViewerTypes == NoViewer \in Viewer /\ NoViewer.step = "idle" /\ NoViewer.late = FALSE
<1>1. NoViewer \in Viewer
  BY Zenon DEF NoViewer, Viewer
<1> QED BY <1>1 DEF NoViewer

\* The other viewers stand still.
Apart(v) == \A u \in Viewers \ {v} : viewer'[u] = viewer[u]

LEMMA ViewerWritten ==
    ASSUME ResultsTypeOK, NEW v \in Viewers, NEW new \in Viewer, viewer' = [viewer EXCEPT ![v] = new]
    PROVE  viewer' \in [Viewers -> Viewer] /\ viewer'[v] = new /\ Apart(v)
BY DEF ResultsTypeOK, Apart

ViewerStep == {"idle", "missed", "build", "store", "archive", "rows", "answered"}

\* A viewer moves on: with a roster, as it is, or with what it saw of the room.
LEMMA ViewerGets ==
    ASSUME ResultsTypeOK, NEW v \in Viewers, NEW step \in ViewerStep, NEW roster \in Roster \cup {NoRoster},
           viewer' = [viewer EXCEPT ![v].step = step, ![v].roster = roster]
    PROVE  /\ viewer' \in [Viewers -> Viewer] /\ Apart(v)
           /\ viewer'[v].step = step /\ viewer'[v].roster = roster
           /\ viewer'[v].late = viewer[v].late
<1> DEFINE new == [viewer[v] EXCEPT !.step = step, !.roster = roster]
<1>1. viewer[v] \in Viewer
  BY DEF ResultsTypeOK
<1>2. new \in Viewer
  BY <1>1, Zenon DEF Viewer, ViewerStep
<1>3. new.step = step /\ new.roster = roster /\ new.late = viewer[v].late
  BY <1>1 DEF Viewer
<1>4. viewer' = [viewer EXCEPT ![v] = new]
  BY <1>1 DEF ResultsTypeOK, Viewer
<1> HIDE DEF new
<1> QED BY <1>2, <1>3, <1>4, ViewerWritten

LEMMA ViewerGoesOn ==
    ASSUME ResultsTypeOK, NEW v \in Viewers, NEW step \in ViewerStep,
           viewer' = [viewer EXCEPT ![v].step = step]
    PROVE  /\ viewer' \in [Viewers -> Viewer] /\ Apart(v)
           /\ viewer'[v].step = step /\ viewer'[v].roster = viewer[v].roster
           /\ viewer'[v].late = viewer[v].late
<1> DEFINE new == [viewer[v] EXCEPT !.step = step]
<1>1. viewer[v] \in Viewer
  BY DEF ResultsTypeOK
<1>2. new \in Viewer
  BY <1>1, Zenon DEF Viewer, ViewerStep
<1>3. new.step = step /\ new.roster = viewer[v].roster /\ new.late = viewer[v].late
  BY <1>1 DEF Viewer
<1>4. viewer' = [viewer EXCEPT ![v] = new]
  BY <1>1 DEF ResultsTypeOK, Viewer
<1> HIDE DEF new
<1> QED BY <1>2, <1>3, <1>4, ViewerWritten

LEMMA ViewerLearns ==
    ASSUME ResultsTypeOK, NEW v \in Viewers, NEW step \in ViewerStep, NEW late \in BOOLEAN,
           viewer' = [viewer EXCEPT ![v].step = step, ![v].late = late]
    PROVE  /\ viewer' \in [Viewers -> Viewer] /\ Apart(v)
           /\ viewer'[v].step = step /\ viewer'[v].roster = viewer[v].roster
           /\ viewer'[v].late = late
<1> DEFINE new == [viewer[v] EXCEPT !.step = step, !.late = late]
<1>1. viewer[v] \in Viewer
  BY DEF ResultsTypeOK
<1>2. new \in Viewer
  BY <1>1, Zenon DEF Viewer, ViewerStep
<1>3. new.step = step /\ new.roster = viewer[v].roster /\ new.late = late
  BY <1>1 DEF Viewer
<1>4. viewer' = [viewer EXCEPT ![v] = new]
  BY <1>1 DEF ResultsTypeOK, Viewer
<1> HIDE DEF new
<1> QED BY <1>2, <1>3, <1>4, ViewerWritten

\* What a viewer's step may do to the roster it carries.
LEMMA RosterKept ==
    ASSUME RosterInv, NEW v \in Viewers, Apart(v), UNCHANGED room, cached' # "empty",
           viewer'[v].late => room.archive = "full" /\ viewer'[v].step # "rows",
           viewer'[v].step \in {"idle", "missed"} => ~viewer'[v].late,
           viewer'[v].step = "store" => viewer'[v].roster = "full",
           viewer'[v].late /\ viewer'[v].step = "answered" => viewer'[v].roster = "full"
    PROVE  RosterInv'
BY DEF RosterInv, Apart

LEMMA AskRoster ==
    ASSUME ResultsTypeOK, RosterInv, NEW v \in Viewers, Ask(v)
    PROVE  viewer' \in [Viewers -> Viewer] /\ RosterInv'
<1> DEFINE new == [late |-> FALSE, roster |-> cached,
                   step |-> IF cached = NoRoster THEN "missed" ELSE "answered"]
<1>1. cached \in Roster \cup {NoRoster}
  BY DEF ResultsTypeOK
<1>2. new \in Viewer
  BY <1>1, Zenon DEF Viewer
<1>3. /\ new.late = FALSE /\ new.roster = cached
      /\ new.step \in {"missed", "answered"} /\ (new.step = "answered" => cached # NoRoster)
  OBVIOUS
<1>4. viewer' = [viewer EXCEPT ![v] = new] /\ UNCHANGED <<room, cached>>
  BY DEF Ask
<1>5. viewer' \in [Viewers -> Viewer] /\ viewer'[v] = new /\ Apart(v)
  <2> HIDE DEF new
  <2> QED BY <1>2, <1>4, ViewerWritten
<1>6. cached # "empty" /\ (cached # NoRoster => cached = "full")
  BY <1>1 DEF RosterInv, Roster
<1> HIDE DEF new
<1> QED BY <1>3, <1>4, <1>5, <1>6, RosterKept

LEMMA ViewerKeeps ==
    ASSUME ResultsTypeOK, RosterInv, NEW v \in Viewers,
           \/ Ask(v) \/ ReadRoom(v) \/ StoreResults(v) \/ ReadRows(v) \/ Answered(v)
           \/ \E readable \in BOOLEAN : Build(v, readable) \/ ReadArchive(v, readable)
    PROVE  /\ viewer' \in [Viewers -> Viewer] /\ cached' \in Roster \cup {NoRoster}
           /\ RosterInv' /\ UNCHANGED <<room, score, board>>
<1>1. UNCHANGED <<room, score, board>>
  BY DEF Ask, ReadRoom, Build, StoreResults, ReadArchive, ReadRows, Answered
<1>2. /\ viewer[v] \in Viewer /\ viewer[v].roster \in Roster \cup {NoRoster}
      /\ cached \in Roster \cup {NoRoster} /\ cached # "empty"
      /\ "full" \in Roster /\ "empty" \in Roster
  BY DEF ResultsTypeOK, Viewer, Roster, RosterInv
<1>3. CASE Ask(v)
  BY <1>1, <1>2, <1>3, AskRoster DEF Ask
<1>4. CASE ReadRoom(v)
  <2>1. PICK step \in {"rows", "build"}, late \in BOOLEAN :
           /\ viewer' = [viewer EXCEPT ![v].step = step, ![v].late = late]
           /\ late => room.archive = "full" /\ step # "rows"
    BY <1>4 DEF ReadRoom
  <2>2. /\ viewer' \in [Viewers -> Viewer] /\ Apart(v) /\ viewer'[v].step = step
        /\ viewer'[v].late = late
    BY <2>1, ViewerLearns DEF ViewerStep
  <2>3. UNCHANGED cached
    BY <1>4 DEF ReadRoom
  <2>4. RosterInv'
    BY <1>1, <1>2, <2>1, <2>2, <2>3, RosterKept
  <2> QED BY <1>1, <1>2, <2>2, <2>3, <2>4
<1>5. ASSUME NEW readable \in BOOLEAN, Build(v, readable)
      PROVE  viewer' \in [Viewers -> Viewer] /\ UNCHANGED cached /\ RosterInv'
  <2>1. UNCHANGED cached /\ viewer[v].step = "build"
    BY <1>5 DEF Build
  <2>2. PICK step \in {"answered", "store", "archive"}, roster \in Roster \cup {NoRoster} :
           /\ \/ viewer' = [viewer EXCEPT ![v].step = step, ![v].roster = roster]
              \/ viewer' = [viewer EXCEPT ![v].step = step] /\ roster = viewer[v].roster
           /\ step # "archive" => roster = "full"
    <3>1. CASE cached # NoRoster
      <4>1. cached = "full"
        BY <1>2, <3>1 DEF Roster
      <4> QED BY <1>2, <1>5, <3>1, <4>1 DEF Build, Answer
    <3>2. CASE cached = NoRoster
      BY <1>2, <1>5, <3>2 DEF Build
    <3> QED BY <3>1, <3>2
  <2>3. /\ viewer' \in [Viewers -> Viewer] /\ Apart(v) /\ viewer'[v].step = step
        /\ viewer'[v].roster = roster /\ viewer'[v].late = viewer[v].late
    <3>1. step \in ViewerStep
      BY DEF ViewerStep
    <3>2. CASE viewer' = [viewer EXCEPT ![v].step = step, ![v].roster = roster]
      BY <3>1, <3>2, ViewerGets
    <3>3. CASE viewer' = [viewer EXCEPT ![v].step = step] /\ roster = viewer[v].roster
      BY <3>1, <3>3, ViewerGoesOn
    <3> QED BY <2>2, <3>2, <3>3
  <2>4. RosterInv'
    <3>1. viewer[v].late => room.archive = "full"
      BY DEF RosterInv
    <3> QED BY <1>1, <1>2, <1>5, <2>1, <2>2, <2>3, <3>1, RosterKept DEF Build
  <2> QED BY <2>1, <2>3, <2>4
<1>6. CASE StoreResults(v)
  <2>1. viewer[v].roster = "full" /\ cached' = "full"
    BY <1>6 DEF StoreResults, RosterInv
  <2>2. /\ viewer' \in [Viewers -> Viewer] /\ Apart(v) /\ viewer'[v].step = "answered"
        /\ viewer'[v].roster = "full" /\ viewer'[v].late = viewer[v].late
    BY <1>2, <1>6, <2>1, ViewerGets DEF StoreResults, Answer, ViewerStep
  <2>3. RosterInv'
    BY <1>1, <2>1, <2>2, RosterKept DEF RosterInv
  <2> QED BY <1>1, <1>2, <2>1, <2>2, <2>3
<1>7. ASSUME NEW readable \in BOOLEAN, ReadArchive(v, readable)
      PROVE  viewer' \in [Viewers -> Viewer] /\ UNCHANGED cached /\ RosterInv'
  <2>1. UNCHANGED <<cached, room>> /\ viewer[v].step = "archive"
    BY <1>7 DEF ReadArchive
  <2>2. viewer[v].late => room.archive = "full"
    BY DEF RosterInv
  <2>3. CASE ArchiveRead(readable)
    <3>1. /\ viewer' \in [Viewers -> Viewer] /\ Apart(v) /\ viewer'[v].step = "answered"
          /\ viewer'[v].roster = "full" /\ viewer'[v].late = viewer[v].late
      BY <1>2, <1>7, <2>3, ViewerGets DEF ReadArchive, Answer, ViewerStep
    <3>2. RosterInv'
      BY <1>2, <2>1, <2>2, <3>1, RosterKept
    <3> QED BY <2>1, <3>1, <3>2
  <2>4. CASE ~ArchiveRead(readable)
    <3>1. PICK late \in BOOLEAN :
             /\ viewer' = [viewer EXCEPT ![v].step = "rows", ![v].late = late]
             /\ ~late
      <4>1. viewer' = [viewer EXCEPT ![v].step = "rows", ![v].late = viewer[v].late /\ readable]
        BY <1>2, <1>7, <2>4 DEF ReadArchive, ResultsTypeOK
      <4>2. ~(viewer[v].late /\ readable)
        BY <2>2, <2>4 DEF ArchiveRead
      <4> QED BY <4>1, <4>2
    <3>2. /\ viewer' \in [Viewers -> Viewer] /\ Apart(v) /\ viewer'[v].step = "rows"
          /\ ~viewer'[v].late
      BY <3>1, ViewerLearns DEF ViewerStep
    <3>3. RosterInv'
      BY <1>2, <2>1, <3>2, RosterKept
    <3> QED BY <2>1, <3>2, <3>3
  <2> QED BY <2>3, <2>4
<1>8. CASE ReadRows(v)
  <2>1. room.rows \in Roster /\ UNCHANGED cached /\ viewer[v].step = "rows"
    BY <1>8 DEF ReadRows, ResultsTypeOK, Room
  <2>2. /\ viewer' \in [Viewers -> Viewer] /\ Apart(v) /\ viewer'[v].step = "answered"
        /\ viewer'[v].late = viewer[v].late
    BY <1>8, <2>1, ViewerGets DEF ReadRows, Answer, ViewerStep
  <2>3. ~viewer[v].late
    BY <2>1 DEF RosterInv
  <2>4. RosterInv'
    BY <1>1, <1>2, <2>1, <2>2, <2>3, RosterKept
  <2> QED BY <1>1, <1>2, <2>1, <2>2, <2>4
<1>9. CASE Answered(v)
  <2>1. viewer' \in [Viewers -> Viewer] /\ Apart(v) /\ viewer'[v] = NoViewer /\ UNCHANGED cached
    BY <1>9, ViewerTypes, ViewerWritten DEF Answered
  <2>2. RosterInv'
    BY <1>1, <1>2, <2>1, ViewerTypes, RosterKept
  <2> QED BY <1>1, <1>2, <2>1, <2>2
<1>10. CASE \E readable \in BOOLEAN : Build(v, readable) \/ ReadArchive(v, readable)
  BY <1>1, <1>2, <1>5, <1>7, <1>10
<1> QED BY <1>3, <1>4, <1>6, <1>8, <1>9, <1>10

\* However the room is closed, an archive of its players is there to stay.
LEMMA ClosesRoom ==
    ASSUME ResultsTypeOK, Closes, NoRoster # "full"
    PROVE  room' \in Room /\ (room.archive = "full" => room'.archive = "full")
<1>1. /\ room.over \in BOOLEAN /\ room.archive \in Roster \cup {NoRoster} /\ room.rows \in Roster
      /\ room.ending \in {"no", "claimed", "archived"} /\ room \in Room
      /\ room.sweep \in {"no", "listed", "archived", "closed"}
  BY DEF ResultsTypeOK, Room
<1>2. \A readable \in BOOLEAN : Collected(readable) \in Roster
  BY <1>1 DEF Collected, Roster
<1>3. CASE Claim \/ ArchiveFails \/ Cleanup
  BY <1>1, <1>3 DEF Claim, ArchiveFails, Cleanup, Room, Roster
<1>4. CASE SweepList \/ SweepClose \/ SweepWipe \/ SweepFails
  BY <1>1, <1>4 DEF SweepList, SweepClose, SweepWipe, SweepFails, Room, Roster
<1>5. ASSUME NEW readable \in BOOLEAN, Archive(readable)
      PROVE  room' \in Room /\ room.archive # "full"
  BY <1>1, <1>2, <1>5 DEF Archive, Room
<1>6. ASSUME NEW readable \in BOOLEAN, SweepArchive(readable)
      PROVE  room' \in Room /\ (room.archive = "full" => room'.archive = "full")
  BY <1>1, <1>2, <1>6 DEF SweepArchive, Room
<1> QED BY <1>3, <1>4, <1>5, <1>6 DEF Closes

\* An archive is there to stay, and a board is never ahead of the scores.
THEOREM ResultsInvariant == ResultsSpec => []ResultsInv
<1>1. ResultsInit => ResultsInv
  <2> SUFFICES ASSUME ResultsInit
               PROVE  ResultsInv
    OBVIOUS
  <2>1. 0 \in 0..MaxScore /\ NoRoster # "empty"
    BY ResultsAssumption
  <2>2. ResultsTypeOK
    BY <2>1, ViewerTypes DEF ResultsInit, ResultsTypeOK, NewRoom, Room, Roster
  <2>3. RosterInv /\ BoardInv
    BY <2>1, ViewerTypes DEF ResultsInit, RosterInv, BoardInv
  <2> QED BY <2>2, <2>3 DEF ResultsInv
<1>2. ASSUME ResultsInv, [ResultsNext]_resultsVars
      PROVE  ResultsInv'
  <2>1. ResultsTypeOK /\ RosterInv /\ BoardInv /\ NoRoster # "empty" /\ NoRoster # "full"
    BY <1>2, ResultsAssumption DEF ResultsInv
  <2>2. CASE Closes
    <3>1. room' \in Room /\ (room.archive = "full" => room'.archive = "full")
      BY <2>1, <2>2, ClosesRoom
    <3>2. ResultsTypeOK'
      BY <2>1, <2>2, <3>1 DEF Closes, ResultsTypeOK
    <3>3. RosterInv' /\ BoardInv'
      BY <2>1, <2>2, <3>1 DEF Closes, RosterInv, BoardInv
    <3> QED BY <3>2, <3>3 DEF ResultsInv
  <2>3. CASE Forget
    BY <2>1, <2>3 DEF Forget, ResultsInv, ResultsTypeOK, RosterInv, BoardInv
  <2>4. CASE Snapshot
    <3>1. BoardInv'
      BY <2>1, <2>4 DEF Snapshot, BoardInv, ResultsTypeOK
    <3> QED BY <2>1, <2>4, <3>1 DEF Snapshot, ResultsInv, ResultsTypeOK, RosterInv
  <2>5. ASSUME NEW v \in Viewers,
               \/ Ask(v) \/ ReadRoom(v) \/ StoreResults(v) \/ ReadRows(v) \/ Answered(v)
               \/ \E readable \in BOOLEAN : Build(v, readable) \/ ReadArchive(v, readable)
        PROVE  ResultsInv'
    BY <2>1, <2>5, ViewerKeeps DEF ResultsInv, ResultsTypeOK, BoardInv
  <2>6. ASSUME NEW p \in Players, Scores(p)
        PROVE  ResultsInv'
    <3>1. /\ score' \in [Players -> 0..MaxScore] /\ \A q \in Players : score[q] <= score'[q]
          /\ UNCHANGED <<room, cached, viewer, board>>
      BY <2>1, <2>6, ResultsAssumption DEF Scores, ResultsTypeOK
    <3>2. \A q \in Players : board # NoRoster => board[q] \in Nat /\ score[q] \in Nat
      BY <2>1, ResultsAssumption DEF ResultsTypeOK
    <3>3. BoardInv'
      BY <2>1, <3>1, <3>2, ResultsAssumption DEF BoardInv
    <3> QED BY <2>1, <3>1, <3>3 DEF ResultsInv, ResultsTypeOK, RosterInv
  <2>7. CASE UNCHANGED resultsVars
    BY <2>1, <2>7 DEF resultsVars, ResultsInv, ResultsTypeOK, RosterInv, BoardInv
  <2> QED BY <1>2, <2>2, <2>3, <2>4, <2>5, <2>6, <2>7 DEF ResultsNext
<1> QED BY <1>1, <1>2, PTL DEF ResultsSpec

\* Results are never remembered as empty, and nobody who found the room finished and its
\* players archived, and can read the archive, is shown an empty list, whether the host, a
\* licence or the sweep of abandoned rooms closes it (GetRoomResults, finalizeRoom,
\* cleanupAbandonedRooms).
THEOREM ResultsAreFull == ResultsSpec => []ResultsStayFull
<1>1. ResultsInv => ResultsStayFull
  BY DEF ResultsInv, RosterInv, ResultsStayFull
<1> QED BY <1>1, ResultsInvariant, PTL

\* The rank told to a player comes from the other players' rows only, and is a rank of
\* the room, whatever the age of the board (rankAgainst).
THEOREM RanksAreOthers == ResultsSpec => []OwnRowNeverAhead
<1>1. ASSUME ResultsInv, board # NoRoster, NEW p \in Players
      PROVE  RankOf(p) = Cardinality(Ahead(p) \ {p}) + 1 /\ RankOf(p) <= Cardinality(Players)
  <2>1. p \notin Ahead(p)
    <3>1. board[p] \in Nat /\ score[p] \in Nat /\ p \in Nat /\ board[p] <= score[p]
      BY <1>1, ResultsAssumption DEF ResultsInv, ResultsTypeOK, BoardInv
    <3> QED BY <3>1 DEF Ahead
  <2>2. IsFiniteSet(Players \ {p}) /\ Cardinality(Players \ {p}) = Cardinality(Players) - 1
    BY <1>1, ResultsAssumption, FS_RemoveElement
  <2>3. Ahead(p) \ {p} = Ahead(p) /\ Ahead(p) \subseteq Players \ {p}
    BY <2>1 DEF Ahead
  <2>4. Cardinality(Ahead(p)) <= Cardinality(Players \ {p}) /\ IsFiniteSet(Ahead(p))
    BY <2>2, <2>3, FS_Subset
  <2>5. Cardinality(Ahead(p)) \in Nat /\ Cardinality(Players) \in Nat
    BY <2>4, ResultsAssumption, FS_CardinalityType
  <2>6. RankOf(p) = Cardinality(Ahead(p) \ {p}) + 1
    BY <2>3 DEF RankOf
  <2>7. Cardinality(Ahead(p)) + 1 <= Cardinality(Players)
    BY <2>2, <2>4, <2>5
  <2> QED BY <2>6, <2>7 DEF RankOf
<1>2. ResultsInv => OwnRowNeverAhead
  BY <1>1 DEF OwnRowNeverAhead
<1> QED BY <1>2, ResultsInvariant, PTL

-----------------------------------------------------------------------------
(* The lobby.                                                              *)

\* Who counts against the cap.
Stayers(r) == {s \in Connected(r) : seat[s].stayed}

SeatInv ==
    /\ \A s \in Seats : seat[s].row = "here" /\ seat[s].stayed => seat[s].connected
    /\ \A r \in Rooms : IsFiniteSet(SeatsOf(r))

\* No other join holds the room's row.
HoldsAlone(j) ==
    \A k \in Joins : joining[k].step = "locked" /\ joining[k].room = joining[j].room => k = j

\* Its player will count against the plan's cap.
TakesPlace(j) == joining[j].strict /\ joining[j].alone

\* A join that holds the row of a room knows it to be waiting and, if it found the gates
\* armed throughout, to have a place left that nobody else can take.
JoinInv ==
    /\ \A j \in Joins : joining[j].step # "idle" =>
          joining[j].room \in Rooms /\ joining[j].nick \in Nicknames
    /\ \A j \in Joins : joining[j].step = "locked" =>
          /\ status[joining[j].room] = "waiting"
          /\ joining[j].alone => HoldsAlone(j)
          /\ TakesPlace(j) => Cardinality(Stayers(joining[j].room)) < PlayerCap

\* A room without a question to deal has been started.
BareAreOver == \A r \in bare : status[r] \in {"active", "finished"}

LobbyInv ==
    /\ TypeOK
    /\ SeatInv
    /\ JoinInv
    /\ BareAreOver
    /\ EverySeatIsDealt
    /\ CapBindsNewcomers

-----------------------------------------------------------------------------
LEMMA SeatIs ==
    ASSUME TypeOK, NEW s \in Seats
    PROVE  /\ seat[s] \in Seat /\ NoSeat \in Seat /\ Gone \in Seat
           /\ NoSeat.row = "none" /\ Gone.row = "gone"
<1>1. seat[s] \in Seat
  BY DEF TypeOK
<1>2. NoSeat \in Seat /\ NoSeat.row = "none"
  BY Zenon DEF NoSeat, Seat
<1>3. Gone \in Seat /\ Gone.row = "gone"
  BY DEF NoSeat, Gone, Seat
<1> QED BY <1>1, <1>2, <1>3

LEMMA JoinIs ==
    /\ NoJoin \in Join /\ NoJoin.step = "idle"
    /\ NoCreate \in Create
<1>1. NoJoin \in Join /\ NoJoin.step = "idle"
  BY DEF NoJoin, Join
<1>2. NoCreate \in Create
  BY DEF NoCreate, Create
<1> QED BY <1>1, <1>2

LEMMA StayersFinite ==
    ASSUME SeatInv, NEW r \in Rooms
    PROVE  /\ IsFiniteSet(Connected(r)) /\ IsFiniteSet(Stayers(r))
           /\ Cardinality(Connected(r)) \in Nat /\ Cardinality(Stayers(r)) \in Nat
           /\ Cardinality(Stayers(r)) <= Cardinality(Connected(r))
<1>1. IsFiniteSet(SeatsOf(r))
  BY DEF SeatInv
<1>2. Connected(r) \subseteq SeatsOf(r) /\ Stayers(r) \subseteq Connected(r)
  BY DEF Connected, Stayers
<1>3. IsFiniteSet(Connected(r))
  BY <1>1, <1>2, FS_Subset
<1>4. IsFiniteSet(Stayers(r)) /\ Cardinality(Stayers(r)) <= Cardinality(Connected(r))
  BY <1>2, <1>3, FS_Subset
<1> QED BY <1>3, <1>4, FS_CardinalityType

\* A seat that is still taken was taken before, by somebody who has not come back.
Kept(s) ==
    seat'[s].row = "here" =>
        /\ seat[s].row = "here" /\ seat'[s].room = seat[s].room
        /\ seat'[s].stayed => seat[s].stayed /\ seat'[s].connected

LEMMA RoomsEmpty ==
    ASSUME SeatInv, \A s \in Seats : Kept(s), NEW r \in Rooms
    PROVE  /\ (SeatsOf(r))' \subseteq SeatsOf(r) /\ (Stayers(r))' \subseteq Stayers(r)
           /\ IsFiniteSet((SeatsOf(r))')
           /\ Cardinality((Stayers(r))') \in Nat
           /\ Cardinality((Stayers(r))') <= Cardinality(Stayers(r))
<1>1. (SeatsOf(r))' \subseteq SeatsOf(r)
  BY DEF SeatsOf, Kept
<1>2. (Stayers(r))' \subseteq Stayers(r)
  BY DEF Stayers, Connected, SeatsOf, Kept, SeatInv
<1>3. IsFiniteSet((SeatsOf(r))')
  BY <1>1, FS_Subset DEF SeatInv
<1>4. IsFiniteSet((Stayers(r))') /\ Cardinality((Stayers(r))') <= Cardinality(Stayers(r))
  BY <1>2, StayersFinite, FS_Subset
<1> QED BY <1>1, <1>2, <1>3, <1>4, FS_CardinalityType

\* Steps that take no seat and start no game.
LEMMA NobodyComes ==
    ASSUME LobbyInv, TypeOK', \A s \in Seats : Kept(s),
           \A s \in Seats : seat'[s].row = "here" => seat'[s].dealt = seat[s].dealt,
           \A r \in Rooms : status'[r] = "active" => status[r] = "active",
           \A r \in Rooms : status[r] \in {"active", "finished"} =>
                             status'[r] \in {"active", "finished"}, UNCHANGED bare,
           \A j \in Joins : joining'[j].step # "idle" =>
              joining'[j].room \in Rooms /\ joining'[j].nick \in Nicknames,
           \A j \in Joins : joining'[j].step = "locked" =>
              /\ joining'[j] = joining[j]
              /\ status'[joining[j].room] = "waiting"
    PROVE  LobbyInv'
<1>1. \A r \in Rooms : /\ (SeatsOf(r))' \subseteq SeatsOf(r) /\ IsFiniteSet((SeatsOf(r))')
                       /\ Cardinality((Stayers(r))') \in Nat
                       /\ Cardinality((Stayers(r))') <= Cardinality(Stayers(r))
                       /\ Cardinality(Stayers(r)) \in Nat
  BY RoomsEmpty, StayersFinite DEF LobbyInv
<1>2. SeatInv'
  BY <1>1 DEF SeatInv, LobbyInv, Kept
<1>3. JoinInv'
  <2>1. ASSUME NEW j \in Joins, joining'[j].step = "locked"
        PROVE  /\ status'[joining'[j].room] = "waiting"
               /\ joining'[j].alone => HoldsAlone(j)'
               /\ TakesPlace(j)' => Cardinality((Stayers(joining[j].room))') < PlayerCap
               /\ joining'[j].room = joining[j].room
    <3>1. joining'[j] = joining[j] /\ joining[j].step = "locked" /\ joining[j].room \in Rooms
      BY <2>1 DEF LobbyInv, JoinInv
    <3>2. TakesPlace(j) => Cardinality(Stayers(joining[j].room)) < PlayerCap
      BY <3>1 DEF LobbyInv, JoinInv
    <3>3. TakesPlace(j) => Cardinality((Stayers(joining[j].room))') < PlayerCap
      BY <1>1, <3>1, <3>2, LobbyAssumption
    <3>4. TakesPlace(j)' <=> TakesPlace(j)
      BY <3>1 DEF TakesPlace
    <3>5. joining'[j].alone => HoldsAlone(j)'
      BY <3>1 DEF LobbyInv, JoinInv, HoldsAlone
    <3> QED BY <2>1, <3>1, <3>3, <3>4, <3>5
  <2> QED BY <2>1 DEF JoinInv
<1>4. EverySeatIsDealt'
  <2>1. ASSUME NEW r \in PlayerPaced, status'[r] = "active", NEW s \in (SeatsOf(r))'
        PROVE  seat'[s].dealt <=> r \notin bare'
    <3>1. r \in Rooms /\ s \in Seats /\ s \in SeatsOf(r) /\ seat'[s].row = "here"
      BY <1>1, <2>1, LobbyAssumption DEF SeatsOf
    <3> QED BY <2>1, <3>1 DEF LobbyInv, EverySeatIsDealt
  <2> QED BY <2>1 DEF EverySeatIsDealt
<1>5. CapBindsNewcomers'
  <2>1. ASSUME NEW r \in Rooms
        PROVE  Cardinality((Stayers(r))') <= PlayerCap
    <3>1. Cardinality(Stayers(r)) <= PlayerCap
      BY DEF LobbyInv, CapBindsNewcomers, Stayers
    <3> QED BY <1>1, <3>1, LobbyAssumption
  <2> QED BY <2>1 DEF CapBindsNewcomers, Stayers
<1>6. BareAreOver'
  BY DEF LobbyInv, TypeOK, BareAreOver
<1> QED BY <1>2, <1>3, <1>4, <1>5, <1>6 DEF LobbyInv

\* Rooms somebody holds keep their status, and none is started.
StatusKept ==
    /\ status' \in [Rooms -> {"none", "waiting", "active", "finished"}]
    /\ \A r \in Rooms : status'[r] = "active" => status[r] = "active"
    /\ \A r \in Rooms : status[r] \in {"active", "finished"} => status'[r] \in {"active", "finished"}
    /\ \A r \in Rooms : status'[r] # status[r] => Locks(r) = {}

LEMMA SameSeats ==
    ASSUME LobbyInv, UNCHANGED seat
    PROVE  /\ \A s \in Seats : Kept(s)
           /\ \A s \in Seats : seat'[s].row = "here" => seat'[s].dealt = seat[s].dealt
BY DEF LobbyInv, SeatInv, Kept

LEMMA SameJoins ==
    ASSUME LobbyInv, UNCHANGED joining, \A r \in Rooms : status'[r] # status[r] => Locks(r) = {}
    PROVE  /\ \A j \in Joins : joining'[j].step # "idle" =>
                 joining'[j].room \in Rooms /\ joining'[j].nick \in Nicknames
           /\ \A j \in Joins : joining'[j].step = "locked" =>
                 joining'[j] = joining[j] /\ status'[joining[j].room] = "waiting"
<1>1. ASSUME NEW j \in Joins, joining[j].step = "locked"
      PROVE  status'[joining[j].room] = "waiting"
  <2>1. joining[j].room \in Rooms /\ status[joining[j].room] = "waiting"
    BY <1>1 DEF LobbyInv, JoinInv
  <2>2. j \in Locks(joining[j].room)
    BY <1>1 DEF Locks
  <2> QED BY <2>1, <2>2
<1> QED BY <1>1 DEF LobbyInv, JoinInv

LEMMA CreateWritten ==
    ASSUME TypeOK, NEW k \in Creates, NEW new \in Create, creating' = [creating EXCEPT ![k] = new]
    PROVE  creating' \in [Creates -> Create]
BY DEF TypeOK

\* CreateRoom opens and closes rooms nobody holds.
LEMMA CreateKeeps ==
    ASSUME LobbyInv, NEW k \in Creates,
           \/ CreateCount(k) \/ CreateRecount(k) \/ CreateFails(k)
           \/ \E r \in Rooms : CreateClose(k, r) \/ CreateInsert(k, r)
    PROVE  LobbyInv'
<1>1. UNCHANGED <<seat, joining, leaving, enforcing, bare>>
  BY DEF CreateCount, CreateRecount, CreateFails, CreateClose, CreateInsert
<1>2. creating[k] \in Create /\ creating[k].empty \subseteq Rooms
  BY DEF LobbyInv, TypeOK, Create
<1>3. creating' \in [Creates -> Create]
  <2>1. CASE CreateCount(k)
    <3> DEFINE empty == {r \in Rooms : status[r] = "waiting" /\ SeatsOf(r) = {}}
    <3>1. /\ [step |-> "insert", empty |-> {}] \in Create
          /\ [step |-> "closing", empty |-> empty] \in Create
      BY DEF Create
    <3>2. \/ creating' = [creating EXCEPT ![k] = [step |-> "insert", empty |-> {}]]
          \/ creating' = [creating EXCEPT ![k] = [step |-> "closing", empty |-> empty]]
      BY <2>1 DEF CreateCount
    <3> HIDE DEF empty
    <3> QED BY <3>1, <3>2, CreateWritten DEF LobbyInv
  <2>2. CASE CreateRecount(k)
    <3> DEFINE go == [creating[k] EXCEPT !.step = "insert"]
               stop == [creating[k] EXCEPT !.step = "idle"]
    <3>1. go \in Create /\ stop \in Create
      BY <1>2 DEF Create
    <3>2. creating' = [creating EXCEPT ![k] = go] \/ creating' = [creating EXCEPT ![k] = stop]
      BY <2>2 DEF CreateRecount
    <3> HIDE DEF go, stop
    <3> QED BY <3>1, <3>2, CreateWritten DEF LobbyInv
  <2>3. CASE creating' = [creating EXCEPT ![k] = NoCreate]
    BY <2>3, JoinIs, CreateWritten DEF LobbyInv
  <2>4. ASSUME NEW r \in Rooms, CreateClose(k, r)
        PROVE  creating' \in [Creates -> Create]
    <3> DEFINE new == [creating[k] EXCEPT !.empty = @ \ {r}]
    <3>1. new \in Create
      BY <1>2 DEF Create
    <3>2. creating' = [creating EXCEPT ![k] = new]
      BY <2>4 DEF CreateClose
    <3> HIDE DEF new
    <3> QED BY <3>1, <3>2, CreateWritten DEF LobbyInv
  <2> QED BY <2>1, <2>2, <2>3, <2>4 DEF CreateFails, CreateInsert
<1>4. StatusKept
  <2>1. CASE UNCHANGED status
    BY <2>1 DEF LobbyInv, TypeOK, StatusKept
  <2>2. ASSUME NEW r \in Rooms, CreateClose(k, r)
        PROVE  StatusKept
    BY <2>2 DEF CreateClose, LobbyInv, TypeOK, StatusKept
  <2>3. ASSUME NEW r \in Rooms, CreateInsert(k, r)
        PROVE  StatusKept
    <3>1. Locks(r) = {}
      BY <2>3 DEF CreateInsert, Locks, LobbyInv, JoinInv
    <3> QED BY <2>3, <3>1 DEF CreateInsert, LobbyInv, TypeOK, StatusKept
  <2> QED BY <2>1, <2>2, <2>3 DEF CreateCount, CreateRecount, CreateFails
<1>5. TypeOK'
  BY <1>1, <1>3, <1>4 DEF LobbyInv, TypeOK, StatusKept
<1> QED BY <1>1, <1>4, <1>5, SameSeats, SameJoins, NobodyComes DEF StatusKept

LEMMA FinishKeepsLobby ==
    ASSUME LobbyInv, NEW r \in Rooms, Finish(r)
    PROVE  LobbyInv'
<1>1. /\ UNCHANGED <<seat, joining, creating, leaving, enforcing, bare>> /\ Locks(r) = {}
      /\ status' = [status EXCEPT ![r] = "finished"]
  BY DEF Finish
<1>2. StatusKept /\ TypeOK'
  BY <1>1 DEF LobbyInv, TypeOK, StatusKept
<1> QED BY <1>1, <1>2, SameSeats, SameJoins, NobodyComes DEF StatusKept

\* Nobody's row changes.
LEMMA LeaveReadKeeps ==
    ASSUME LobbyInv, NEW s \in Seats, NEW unload \in BOOLEAN, LeaveRead(s, unload)
    PROVE  LobbyInv'
<1>1. /\ UNCHANGED <<status, seat, joining, creating, enforcing, bare>>
      /\ \/ leaving' = [leaving EXCEPT ![s] = "flag"]
         \/ leaving' = [leaving EXCEPT ![s] = "delete"]
  BY DEF LeaveRead
<1>2. TypeOK'
  BY <1>1 DEF LobbyInv, TypeOK
<1> QED BY <1>1, <1>2, SameSeats, SameJoins, NobodyComes

\* A seat that changes while it stays taken, or is given up.
LEMMA SeatMoves ==
    ASSUME LobbyInv, NEW s \in Seats, NEW new \in Seat, seat' = [seat EXCEPT ![s] = new],
           new.row = "here" => /\ seat[s].row = "here" /\ new.room = seat[s].room
                               /\ new.dealt = seat[s].dealt
                               /\ new.stayed => seat[s].stayed /\ new.connected
    PROVE  /\ \A x \in Seats : Kept(x)
           /\ \A x \in Seats : seat'[x].row = "here" => seat'[x].dealt = seat[x].dealt
           /\ seat' \in [Seats -> Seat]
<1>1. seat \in [Seats -> Seat]
  BY DEF LobbyInv, TypeOK
<1>2. \A x \in Seats \ {s} : seat'[x] = seat[x]
  BY <1>1
<1>3. seat'[s] = new
  BY <1>1
<1>4. \A x \in Seats \ {s} : Kept(x)
  BY <1>2 DEF LobbyInv, SeatInv, Kept
<1>5. Kept(s)
  BY <1>3 DEF Kept
<1> QED BY <1>1, <1>2, <1>3, <1>4, <1>5

LEMMA LeaveWriteKeeps ==
    ASSUME LobbyInv, NEW s \in Seats, LeaveWrite(s)
    PROVE  LobbyInv'
<1> DEFINE flagged == [seat[s] EXCEPT !.connected = FALSE, !.stayed = FALSE]
           new == IF seat[s].row = "gone" \/ leaving[s] = "delete" THEN Gone ELSE flagged
<1>1. /\ UNCHANGED <<status, joining, creating, enforcing, bare>>
      /\ leaving' = [leaving EXCEPT ![s] = "idle"]
      /\ seat' = [seat EXCEPT ![s] = new]
  BY DEF LeaveWrite
<1>2. seat[s] \in Seat /\ Gone \in Seat /\ Gone.row = "gone"
  BY SeatIs DEF LobbyInv
<1>3. flagged \in Seat
  BY <1>2 DEF Seat
<1>4. /\ flagged.row = seat[s].row /\ flagged.room = seat[s].room
      /\ flagged.dealt = seat[s].dealt /\ ~flagged.stayed
  BY <1>2, Zenon DEF Seat
<1> HIDE DEF flagged
<1>5. /\ new \in Seat
      /\ new.row = "here" => /\ seat[s].row = "here" /\ new.room = seat[s].room
                             /\ new.dealt = seat[s].dealt /\ ~new.stayed
  BY <1>2, <1>3, <1>4
<1> HIDE DEF new
<1>6. /\ \A x \in Seats : Kept(x)
      /\ \A x \in Seats : seat'[x].row = "here" => seat'[x].dealt = seat[x].dealt
      /\ seat' \in [Seats -> Seat]
  BY <1>1, <1>5, SeatMoves
<1>7. TypeOK'
  BY <1>1, <1>6 DEF LobbyInv, TypeOK
<1> QED BY <1>1, <1>6, <1>7, SameJoins, NobodyComes

\* Who comes back does so without having stayed: the cap never counted them out.
LEMMA ReconnectKeeps ==
    ASSUME LobbyInv, NEW s \in Seats, Reconnect(s)
    PROVE  LobbyInv'
<1> DEFINE new == [seat[s] EXCEPT !.connected = TRUE]
<1>1. /\ UNCHANGED <<status, joining, creating, leaving, enforcing, bare>>
      /\ seat' = [seat EXCEPT ![s] = new]
      /\ seat[s].row = "here" /\ ~seat[s].connected
  BY DEF Reconnect
<1>2. seat[s] \in Seat /\ ~seat[s].stayed
  BY <1>1 DEF LobbyInv, TypeOK, SeatInv
<1>3. new \in Seat
  BY <1>2 DEF Seat
<1>4. /\ new.room = seat[s].room /\ new.dealt = seat[s].dealt /\ new.stayed = seat[s].stayed
  BY <1>2, Zenon DEF Seat
<1> HIDE DEF new
<1>5. /\ \A x \in Seats : Kept(x)
      /\ \A x \in Seats : seat'[x].row = "here" => seat'[x].dealt = seat[x].dealt
      /\ seat' \in [Seats -> Seat]
  BY <1>1, <1>2, <1>3, <1>4, SeatMoves
<1>6. TypeOK'
  BY <1>1, <1>5 DEF LobbyInv, TypeOK
<1> QED BY <1>1, <1>5, <1>6, SameJoins, NobodyComes

\* One join changes, to something that holds no lock.
LEMMA JoinMoves ==
    ASSUME LobbyInv, NEW j \in Joins, NEW new \in Join, joining' = [joining EXCEPT ![j] = new],
           new.step # "locked",
           new.step # "idle" => new.room \in Rooms /\ new.nick \in Nicknames, UNCHANGED status
    PROVE  /\ joining' \in [Joins -> Join]
           /\ \A k \in Joins : joining'[k].step # "idle" =>
                 joining'[k].room \in Rooms /\ joining'[k].nick \in Nicknames
           /\ \A k \in Joins : joining'[k].step = "locked" =>
                 joining'[k] = joining[k] /\ status'[joining[k].room] = "waiting"
<1>1. joining \in [Joins -> Join]
  BY DEF LobbyInv, TypeOK
<1>2. joining'[j] = new /\ \A k \in Joins \ {j} : joining'[k] = joining[k]
  BY <1>1
<1> QED BY <1>1, <1>2 DEF LobbyInv, JoinInv

LEMMA JoinCheckKeeps ==
    ASSUME LobbyInv, NEW j \in Joins, NEW r \in Rooms, NEW n \in Nicknames, JoinCheck(j, r, n)
    PROVE  LobbyInv'
<1> DEFINE holder == IF Holders(r, n) = {} THEN None ELSE CHOOSE s \in Holders(r, n) : TRUE
           found == [step |-> "found", room |-> r, nick |-> n, strict |-> enforcing,
                     alone |-> FALSE, holder |-> holder]
<1>1. holder \in Seats \cup {None}
  BY DEF Holders, SeatsOf
<1>2. joining' = [joining EXCEPT ![j] = found]
  BY DEF JoinCheck
<1> HIDE DEF holder
<1>3. found \in Join
  <2>1. enforcing \in BOOLEAN
    BY DEF LobbyInv, TypeOK
  <2>2. r \in Rooms \cup {None} /\ n \in Nicknames \cup {None}
    OBVIOUS
  <2> QED BY <1>1, <2>1, <2>2, Zenon DEF Join
<1>4. found.step = "found" /\ found.room = r /\ found.nick = n
  OBVIOUS
<1>5. UNCHANGED <<status, seat, creating, leaving, enforcing, bare>>
  BY DEF JoinCheck
<1> HIDE DEF found
<1>6. /\ joining' \in [Joins -> Join]
      /\ \A k \in Joins : joining'[k].step # "idle" =>
            joining'[k].room \in Rooms /\ joining'[k].nick \in Nicknames
      /\ \A k \in Joins : joining'[k].step = "locked" =>
            joining'[k] = joining[k] /\ status'[joining[k].room] = "waiting"
  BY <1>2, <1>3, <1>4, <1>5, JoinMoves
<1>7. TypeOK'
  BY <1>5, <1>6 DEF LobbyInv, TypeOK
<1> QED BY <1>5, <1>6, <1>7, SameSeats, NobodyComes

LEMMA JoinEndKeeps ==
    ASSUME LobbyInv, NEW j \in Joins, JoinEnds(j)
    PROVE  LobbyInv'
<1>1. /\ UNCHANGED <<status, seat, creating, leaving, enforcing, bare>>
      /\ joining' = [joining EXCEPT ![j] = NoJoin]
  BY DEF JoinEnds
<1>2. /\ joining' \in [Joins -> Join]
      /\ \A k \in Joins : joining'[k].step # "idle" =>
            joining'[k].room \in Rooms /\ joining'[k].nick \in Nicknames
      /\ \A k \in Joins : joining'[k].step = "locked" =>
            joining'[k] = joining[k] /\ status'[joining[k].room] = "waiting"
  BY <1>1, JoinIs, JoinMoves
<1>3. TypeOK'
  BY <1>1, <1>2 DEF LobbyInv, TypeOK
<1> QED BY <1>1, <1>2, <1>3, SameSeats, NobodyComes

\* An abandoned row makes room, if it is still abandoned.
LEMMA JoinFreeKeeps ==
    ASSUME LobbyInv, NEW j \in Joins, JoinFree(j)
    PROVE  LobbyInv'
<1> DEFINE new == [joining[j] EXCEPT !.step = "ready", !.holder = None, !.alone = enforcing]
           s == joining[j].holder
<1>1. /\ joining[j].step = "found" /\ UNCHANGED <<status, creating, leaving, enforcing, bare>>
      /\ joining' = [joining EXCEPT ![j] = new]
      /\ seat' = [x \in Seats |->
            IF x = s /\ seat[x].row = "here" /\ ~seat[x].connected THEN Gone ELSE seat[x]]
  BY DEF JoinFree, LobbyInv, TypeOK
<1>2. joining[j] \in Join /\ enforcing \in BOOLEAN
  BY DEF LobbyInv, TypeOK
<1>3. /\ new \in Join /\ new.step = "ready" /\ new.room = joining[j].room
      /\ new.nick = joining[j].nick
  BY <1>2 DEF Join
<1>4. joining[j].room \in Rooms /\ joining[j].nick \in Nicknames
  BY <1>1 DEF LobbyInv, JoinInv
<1> HIDE DEF new
<1>5. /\ joining' \in [Joins -> Join]
      /\ \A k \in Joins : joining'[k].step # "idle" =>
            joining'[k].room \in Rooms /\ joining'[k].nick \in Nicknames
      /\ \A k \in Joins : joining'[k].step = "locked" =>
            joining'[k] = joining[k] /\ status'[joining[k].room] = "waiting"
  BY <1>1, <1>3, <1>4, JoinMoves
<1>6. /\ \A x \in Seats : Kept(x)
      /\ \A x \in Seats : seat'[x].row = "here" => seat'[x].dealt = seat[x].dealt
      /\ seat' \in [Seats -> Seat]
  <2>1. seat \in [Seats -> Seat]
    BY DEF LobbyInv, TypeOK
  <2>2. \A x \in Seats : Gone \in Seat /\ Gone.row = "gone"
    BY SeatIs DEF LobbyInv
  <2>3. \A x \in Seats : seat'[x] = seat[x] \/ seat'[x] = Gone
    BY <1>1, <2>1
  <2>4. DOMAIN seat' = Seats /\ seat' = [x \in Seats |-> seat'[x]]
    BY <1>1, <2>1
  <2> QED BY <2>1, <2>2, <2>3, <2>4 DEF LobbyInv, SeatInv, Kept
<1>7. TypeOK'
  BY <1>1, <1>5, <1>6 DEF LobbyInv, TypeOK
<1> QED BY <1>5, <1>6, <1>7, <1>1, NobodyComes

\* The lock is taken on a waiting room, and on one that has a place left where it counts.
LEMMA JoinLockKeeps ==
    ASSUME LobbyInv, NEW j \in Joins, JoinLock(j)
    PROVE  LobbyInv'
<1> DEFINE new == [joining[j] EXCEPT !.step = "locked", !.strict = @ /\ enforcing]
           r == joining[j].room
<1>1. /\ joining[j].step = "ready"
      /\ UNCHANGED <<status, seat, creating, leaving, enforcing, bare>>
      /\ joining' = [joining EXCEPT ![j] = new] /\ status[r] = "waiting"
      /\ \A k \in Locks(r) : ~joining[j].alone /\ ~joining[k].alone
      /\ joining[j].strict /\ enforcing => Cardinality(Connected(r)) < PlayerCap
  <2>1. joining' = [joining EXCEPT ![j] = new]
    BY DEF JoinLock, LobbyInv, TypeOK
  <2> QED BY <2>1 DEF JoinLock, Lockable
<1>2. joining[j] \in Join /\ joining \in [Joins -> Join] /\ enforcing \in BOOLEAN
  BY DEF LobbyInv, TypeOK
<1>3. /\ new \in Join /\ new.step = "locked" /\ new.room = r /\ new.nick = joining[j].nick
      /\ new.alone = joining[j].alone /\ new.strict = (joining[j].strict /\ enforcing)
  BY <1>2 DEF Join
<1> HIDE DEF new
<1>4. r \in Rooms /\ joining[j].nick \in Nicknames
  BY <1>1 DEF LobbyInv, JoinInv
<1>5. joining'[j] = new /\ \A k \in Joins \ {j} : joining'[k] = joining[k]
  BY <1>1, <1>2
<1>6. TypeOK' /\ SeatInv' /\ EverySeatIsDealt' /\ CapBindsNewcomers' /\ BareAreOver'
  BY <1>1, <1>2, <1>3 DEF LobbyInv, BareAreOver, TypeOK, SeatInv, EverySeatIsDealt, CapBindsNewcomers, SeatsOf,
                          Connected
<1>7. TakesPlace(j)' => Cardinality(Stayers(r)) < PlayerCap
  <2>1. TakesPlace(j)' => joining[j].strict /\ enforcing
    BY <1>3, <1>5 DEF TakesPlace
  <2> QED BY <1>1, <1>4, <2>1, StayersFinite, LobbyAssumption DEF LobbyInv
<1>8. \A k \in Joins : joining'[k].step = "locked" /\ k # j => joining[k].step = "locked"
  BY <1>5
<1>9. ASSUME NEW k \in Joins, joining'[k].step = "locked", joining'[k].alone
      PROVE  HoldsAlone(k)'
  <2>1. ASSUME NEW l \in Joins, joining'[l].step = "locked", joining'[l].room = joining'[k].room
        PROVE  l = k
    <3>1. CASE k # j /\ l # j
      BY <1>5, <1>8, <1>9, <2>1, <3>1 DEF LobbyInv, JoinInv, HoldsAlone
    <3>2. CASE k = j /\ l # j
      <4>1. l \in Locks(r)
        BY <1>3, <1>5, <1>8, <2>1, <3>2 DEF Locks
      <4> QED BY <1>1, <1>3, <1>5, <1>9, <3>2, <4>1
    <3>3. CASE k # j /\ l = j
      <4>1. k \in Locks(r)
        BY <1>3, <1>5, <1>8, <1>9, <2>1, <3>3 DEF Locks
      <4> QED BY <1>1, <1>5, <1>9, <3>3, <4>1
    <3> QED BY <3>1, <3>2, <3>3
  <2> QED BY <2>1 DEF HoldsAlone
<1>10. JoinInv'
  <2>1. ASSUME NEW k \in Joins, joining'[k].step # "idle"
        PROVE  joining'[k].room \in Rooms /\ joining'[k].nick \in Nicknames
    BY <1>3, <1>4, <1>5, <2>1 DEF LobbyInv, JoinInv
  <2>2. ASSUME NEW k \in Joins, joining'[k].step = "locked"
        PROVE  status'[joining'[k].room] = "waiting"
    BY <1>1, <1>3, <1>5, <2>2 DEF LobbyInv, JoinInv
  <2>3. ASSUME NEW k \in Joins, joining'[k].step = "locked", TakesPlace(k)'
        PROVE  Cardinality(Stayers(joining'[k].room)) < PlayerCap
    <3>1. CASE k = j
      BY <1>3, <1>5, <1>7, <2>3, <3>1
    <3>2. CASE k # j
      BY <1>5, <1>8, <2>3, <3>2 DEF LobbyInv, JoinInv, TakesPlace
    <3> QED BY <3>1, <3>2
  <2>4. \A k \in Joins : (Stayers(joining[k].room))' = Stayers(joining'[k].room)
    BY <1>1 DEF Stayers, Connected, SeatsOf
  <2> QED BY <1>9, <2>1, <2>2, <2>3, <2>4 DEF JoinInv
<1> QED BY <1>6, <1>10 DEF LobbyInv

\* The one who holds the room takes the place that was left.
LEMMA JoinInsertKeeps ==
    ASSUME LobbyInv, NEW j \in Joins, NEW s \in Seats, JoinInsert(j, s)
    PROVE  LobbyInv'
<1> PICK r \in Rooms : r = joining[j].room
  BY DEF JoinInsert, LobbyInv, JoinInv
<1> DEFINE takes == joining[j].strict /\ joining[j].alone
           new == [row |-> "here", room |-> r, nick |-> joining[j].nick, connected |-> TRUE,
                   dealt |-> FALSE, stayed |-> takes]
<1>1. /\ joining[j].step = "locked" /\ seat[s].row = "none"
      /\ seat' = [seat EXCEPT ![s] = new] /\ joining' = [joining EXCEPT ![j] = NoJoin]
      /\ UNCHANGED <<status, creating, leaving, enforcing, bare>>
  BY DEF JoinInsert
<1>2. /\ status[r] = "waiting" /\ joining[j].nick \in Nicknames
      /\ takes => joining[j].alone /\ TakesPlace(j) /\ HoldsAlone(j)
      /\ takes => Cardinality(Stayers(r)) < PlayerCap
      /\ takes \in BOOLEAN
  BY <1>1 DEF LobbyInv, JoinInv, TakesPlace
<1> HIDE DEF takes
<1>3. new \in Seat
  <2>1. joining[j].nick \in Nicknames \cup {None} /\ r \in Rooms \cup {None}
    BY <1>2
  <2> QED BY <1>2, <2>1, Zenon DEF Seat
<1>4. new.row = "here" /\ new.room = r /\ new.connected /\ new.stayed = takes
  OBVIOUS
<1> HIDE DEF new
<1>5. seat'[s] = new /\ \A x \in Seats \ {s} : seat'[x] = seat[x]
  BY <1>1 DEF LobbyInv, TypeOK
<1>6. /\ joining'[j] = NoJoin /\ NoJoin.step = "idle"
      /\ \A k \in Joins \ {j} : joining'[k] = joining[k]
  BY <1>1, JoinIs DEF LobbyInv, TypeOK
<1>7. TypeOK'
  BY <1>1, <1>3, JoinIs DEF LobbyInv, TypeOK
<1>8. /\ (SeatsOf(r))' = SeatsOf(r) \cup {s}
      /\ (Stayers(r))' = IF takes THEN Stayers(r) \cup {s} ELSE Stayers(r)
      /\ s \notin Stayers(r)
  BY <1>1, <1>2, <1>4, <1>5 DEF SeatsOf, Stayers, Connected
<1>9. \A x \in Rooms \ {r} : (SeatsOf(x))' = SeatsOf(x) /\ (Stayers(x))' = Stayers(x)
  BY <1>1, <1>4, <1>5 DEF SeatsOf, Stayers, Connected
<1>10. SeatInv'
  <2>1. IsFiniteSet(SeatsOf(r) \cup {s})
    BY FS_AddElement DEF LobbyInv, SeatInv
  <2> QED BY <1>4, <1>5, <1>8, <1>9, <2>1 DEF LobbyInv, SeatInv
<1>11. JoinInv'
  <2>1. ASSUME NEW k \in Joins, joining'[k].step = "locked"
        PROVE  /\ status'[joining'[k].room] = "waiting"
               /\ joining'[k].alone => HoldsAlone(k)'
               /\ TakesPlace(k)' => Cardinality((Stayers(joining[k].room))') < PlayerCap
               /\ joining'[k] = joining[k]
    <3>1. k # j /\ joining'[k] = joining[k] /\ joining[k].step = "locked" /\ joining[k].room \in Rooms
      BY <1>6, <2>1 DEF LobbyInv, JoinInv
    <3>2. joining[k].alone => HoldsAlone(k) /\ joining[k].room # r
      BY <1>1, <3>1 DEF LobbyInv, JoinInv, HoldsAlone
    <3>3. ASSUME TakesPlace(k)
          PROVE  Cardinality((Stayers(joining[k].room))') < PlayerCap
      <4>1. Cardinality(Stayers(joining[k].room)) < PlayerCap
        BY <3>1, <3>3 DEF LobbyInv, JoinInv
      <4>2. PICK x \in Rooms : x = joining[k].room
        BY <3>1
      <4>3. x # r /\ joining'[k].room = x
        BY <3>1, <3>2, <3>3, <4>2 DEF TakesPlace
      <4>4. (Stayers(x))' = Stayers(x)
        BY <1>9, <4>3
      <4>5. (Stayers(joining[k].room))' = (Stayers(x))'
        BY <3>1, <4>2, <4>3 DEF Stayers, Connected, SeatsOf
      <4> QED BY <4>1, <4>2, <4>4, <4>5
    <3>4. TakesPlace(k)' <=> TakesPlace(k)
      BY <3>1 DEF TakesPlace
    <3>5. joining'[k].alone => HoldsAlone(k)'
      BY <1>6, <3>1, <3>2 DEF HoldsAlone
    <3> QED BY <1>1, <3>1, <3>3, <3>4, <3>5 DEF LobbyInv, JoinInv
  <2>2. \A k \in Joins : joining'[k].step # "idle" =>
           joining'[k].room \in Rooms /\ joining'[k].nick \in Nicknames
    BY <1>6 DEF LobbyInv, JoinInv
  <2> QED BY <2>1, <2>2 DEF JoinInv
<1>12. EverySeatIsDealt'
  <2>1. ASSUME NEW x \in PlayerPaced, status'[x] = "active", NEW y \in (SeatsOf(x))'
        PROVE  seat'[y].dealt <=> x \notin bare'
    <3>1. x \in Rooms /\ x # r /\ status[x] = "active"
      BY <1>1, <1>2, <2>1, LobbyAssumption
    <3>2. y \in SeatsOf(x) /\ y # s
      BY <1>1, <1>9, <2>1, <3>1 DEF SeatsOf
    <3> QED BY <1>1, <1>5, <2>1, <3>1, <3>2 DEF LobbyInv, EverySeatIsDealt, SeatsOf
  <2> QED BY <2>1 DEF EverySeatIsDealt
<1>13. CapBindsNewcomers'
  <2>1. Cardinality((Stayers(r))') <= PlayerCap
    <3>1. IsFiniteSet(Stayers(r)) /\ Cardinality(Stayers(r)) \in Nat
      BY StayersFinite DEF LobbyInv
    <3>2. Cardinality(Stayers(r) \cup {s}) = Cardinality(Stayers(r)) + 1
      BY <1>8, <3>1, FS_AddElement
    <3>3. Cardinality(Stayers(r)) <= PlayerCap
      BY DEF LobbyInv, CapBindsNewcomers, Stayers
    <3> QED BY <1>2, <1>8, <3>1, <3>2, <3>3, LobbyAssumption
  <2> QED BY <1>9, <2>1 DEF LobbyInv, CapBindsNewcomers, Stayers
<1>14. BareAreOver'
  BY <1>1 DEF LobbyInv, BareAreOver
<1> QED BY <1>7, <1>10, <1>11, <1>12, <1>13, <1>14 DEF LobbyInv

\* Who is there is dealt in; who is away is gone.
LEMMA StartKeepsLobby ==
    ASSUME LobbyInv, NEW r \in Rooms, NEW first \in BOOLEAN, StartGame(r, first)
    PROVE  LobbyInv'
<1>1. /\ UNCHANGED <<joining, creating, leaving, enforcing>> /\ Locks(r) = {}
      /\ bare' = IF r \in PlayerPaced /\ ~first THEN bare \cup {r} ELSE bare
      /\ bare' \subseteq Rooms /\ status[r] = "waiting"
      /\ status' = [status EXCEPT ![r] = "active"]
      /\ seat' = [s \in Seats |-> IF s \notin SeatsOf(r) THEN seat[s]
                                  ELSE IF ~seat[s].connected THEN Gone
                                  ELSE [seat[s] EXCEPT !.dealt = r \in PlayerPaced /\ first]]
  BY DEF StartGame, LobbyInv, TypeOK
<1>2. ASSUME NEW s \in Seats
      PROVE  /\ seat'[s] \in Seat
             /\ s \notin SeatsOf(r) => seat'[s] = seat[s]
             /\ s \in SeatsOf(r) /\ seat'[s].row = "here" =>
                   /\ seat[s].connected /\ seat'[s].room = seat[s].room
                   /\ seat'[s].connected = seat[s].connected
                   /\ seat'[s].stayed = seat[s].stayed
                   /\ seat'[s].dealt = (r \in PlayerPaced /\ first)
  <2> DEFINE dealt == [seat[s] EXCEPT !.dealt = r \in PlayerPaced /\ first]
  <2>1. seat[s] \in Seat /\ Gone \in Seat /\ Gone.row = "gone"
    BY SeatIs DEF LobbyInv
  <2>2. dealt \in Seat
    <3>1. (r \in PlayerPaced /\ first) \in BOOLEAN
      OBVIOUS
    <3> QED BY <2>1, <3>1, Zenon DEF Seat
  <2>3. /\ dealt.room = seat[s].room /\ dealt.connected = seat[s].connected
        /\ dealt.stayed = seat[s].stayed /\ dealt.dealt = (r \in PlayerPaced /\ first)
    BY <2>1, Zenon DEF Seat
  <2>4. seat'[s] = IF s \notin SeatsOf(r) THEN seat[s]
                   ELSE IF ~seat[s].connected THEN Gone ELSE dealt
    BY <1>1
  <2> HIDE DEF dealt
  <2> QED BY <2>1, <2>2, <2>3, <2>4
<1>3. TypeOK'
  <2>1. seat' \in [Seats -> Seat]
    BY <1>1, <1>2
  <2> QED BY <1>1, <2>1 DEF LobbyInv, TypeOK
<1>4. \A s \in Seats : Kept(s)
  BY <1>2 DEF LobbyInv, SeatInv, Kept, SeatsOf
<1>5. \A x \in Rooms : /\ (SeatsOf(x))' \subseteq SeatsOf(x) /\ IsFiniteSet((SeatsOf(x))')
                       /\ Cardinality((Stayers(x))') \in Nat
                       /\ Cardinality((Stayers(x))') <= Cardinality(Stayers(x))
                       /\ Cardinality(Stayers(x)) \in Nat
  BY <1>4, RoomsEmpty, StayersFinite DEF LobbyInv
<1>6. SeatInv'
  BY <1>4, <1>5 DEF SeatInv, LobbyInv, Kept
<1>7. JoinInv'
  <2>1. ASSUME NEW j \in Joins, joining[j].step = "locked"
        PROVE  /\ status'[joining[j].room] = "waiting"
               /\ joining[j].alone => HoldsAlone(j)
               /\ TakesPlace(j) => Cardinality((Stayers(joining[j].room))') < PlayerCap
    <3>1. PICK x \in Rooms : x = joining[j].room
      BY <2>1 DEF LobbyInv, JoinInv
    <3>2. x # r /\ status[x] = "waiting"
      BY <1>1, <2>1, <3>1 DEF Locks, LobbyInv, JoinInv
    <3>3. /\ joining[j].alone => HoldsAlone(j)
          /\ TakesPlace(j) => Cardinality(Stayers(x)) < PlayerCap
      BY <2>1, <3>1 DEF LobbyInv, JoinInv
    <3>4. TakesPlace(j) => Cardinality((Stayers(x))') < PlayerCap
      BY <1>5, <3>3, LobbyAssumption
    <3>5. (Stayers(joining[j].room))' = (Stayers(x))'
      BY <1>1, <3>1 DEF Stayers, Connected, SeatsOf
    <3> QED BY <1>1, <3>1, <3>2, <3>3, <3>4, <3>5 DEF LobbyInv, TypeOK
  <2>2. \A j \in Joins : /\ HoldsAlone(j)' <=> HoldsAlone(j)
                         /\ TakesPlace(j)' <=> TakesPlace(j)
    BY <1>1 DEF HoldsAlone, TakesPlace
  <2> QED BY <1>1, <2>1, <2>2 DEF LobbyInv, JoinInv
<1>8. EverySeatIsDealt'
  <2>1. ASSUME NEW x \in PlayerPaced, status'[x] = "active", NEW s \in (SeatsOf(x))'
        PROVE  seat'[s].dealt <=> x \notin bare'
    <3>1. x \in Rooms /\ s \in SeatsOf(x) /\ s \in Seats /\ seat'[s].row = "here"
      BY <1>5, <2>1, LobbyAssumption DEF SeatsOf
    <3>2. CASE x = r
      <4>1. seat'[s].dealt <=> first
        BY <1>2, <2>1, <3>1, <3>2
      <4>2. r \notin bare
        BY <1>1 DEF LobbyInv, BareAreOver
      <4> QED BY <1>1, <2>1, <3>2, <4>1, <4>2
    <3>3. CASE x # r
      <4>1. s \notin SeatsOf(r) /\ status[x] = "active"
        BY <1>1, <2>1, <3>1, <3>3 DEF SeatsOf, LobbyInv, TypeOK
      <4>2. x \in bare' <=> x \in bare
        BY <1>1, <3>3
      <4> QED BY <1>2, <2>1, <3>1, <4>1, <4>2 DEF LobbyInv, EverySeatIsDealt
    <3> QED BY <3>2, <3>3
  <2> QED BY <2>1 DEF EverySeatIsDealt
<1>10. BareAreOver'
  BY <1>1 DEF LobbyInv, TypeOK, BareAreOver
<1>9. CapBindsNewcomers'
  <2>1. ASSUME NEW x \in Rooms
        PROVE  Cardinality((Stayers(x))') <= PlayerCap
    <3>1. Cardinality(Stayers(x)) <= PlayerCap
      BY DEF LobbyInv, CapBindsNewcomers, Stayers
    <3> QED BY <1>5, <3>1, LobbyAssumption
  <2> QED BY <2>1 DEF CapBindsNewcomers, Stayers
<1> QED BY <1>3, <1>6, <1>7, <1>8, <1>9, <1>10 DEF LobbyInv

LEMMA RestartKeepsLobby ==
    ASSUME LobbyInv, Restart
    PROVE  LobbyInv'
<1>1. /\ UNCHANGED <<status, seat, enforcing, bare>> /\ joining' = [j \in Joins |-> NoJoin]
      /\ creating' = [k \in Creates |-> NoCreate] /\ leaving' = [s \in Seats |-> "idle"]
  BY DEF Restart
<1>2. \A j \in Joins : joining'[j].step = "idle"
  BY <1>1, JoinIs
<1>3. TypeOK'
  BY <1>1, JoinIs DEF LobbyInv, TypeOK
<1> QED BY <1>1, <1>2, <1>3, SameSeats, NobodyComes

LEMMA SwitchKeepsLobby ==
    ASSUME LobbyInv, SetEnforcement
    PROVE  LobbyInv'
<1>1. UNCHANGED <<status, seat, joining, creating, leaving, bare>> /\ enforcing' \in BOOLEAN
  BY DEF SetEnforcement
<1>2. TypeOK'
  BY <1>1 DEF LobbyInv, TypeOK
<1> QED BY <1>1, <1>2, SameSeats, SameJoins, NobodyComes

LEMMA LobbyInitInv == Init => LobbyInv
<1> SUFFICES ASSUME Init
             PROVE  LobbyInv
  OBVIOUS
<1>1. NoSeat \in Seat /\ NoSeat.row = "none"
  BY Zenon DEF NoSeat, Seat
<1>2. TypeOK
  BY <1>1, JoinIs DEF Init, TypeOK
<1>3. \A r \in Rooms : SeatsOf(r) = {} /\ Stayers(r) = {}
  BY <1>1 DEF Init, SeatsOf, Stayers, Connected
<1>4. IsFiniteSet({}) /\ Cardinality({}) = 0
  BY FS_EmptySet
<1>5. SeatInv
  BY <1>1, <1>3, <1>4 DEF Init, SeatInv
<1>6. JoinInv
  BY JoinIs DEF Init, JoinInv
<1>7. EverySeatIsDealt
  BY LobbyAssumption DEF Init, EverySeatIsDealt
<1>8. CapBindsNewcomers
  <2>1. 0 <= PlayerCap
    BY LobbyAssumption
  <2>2. \A r \in Rooms : Cardinality(Stayers(r)) <= PlayerCap
    BY <1>3, <1>4, <2>1
  <2> QED BY <2>2 DEF CapBindsNewcomers, Stayers
<1>9. BareAreOver
  BY DEF Init, BareAreOver
<1> QED BY <1>2, <1>5, <1>6, <1>7, <1>8, <1>9 DEF LobbyInv

\* A join that holds a room finds it waiting, with a place nobody else can take.
THEOREM LobbyInvariant == Spec => []LobbyInv
<1>1. LobbyInv /\ [Next]_vars => LobbyInv'
  <2>1. ASSUME LobbyInv, UNCHANGED vars
        PROVE  LobbyInv'
    <3>1. TypeOK' /\ UNCHANGED <<seat, joining, status, bare>>
      BY <2>1 DEF vars, LobbyInv, TypeOK
    <3> QED BY <2>1, <3>1, SameSeats, SameJoins, NobodyComes
  <2>2. ASSUME LobbyInv, Next
        PROVE  LobbyInv'
    BY <2>2, CreateKeeps, JoinCheckKeeps, JoinFreeKeeps, JoinLockKeeps, JoinEndKeeps,
       JoinInsertKeeps, StartKeepsLobby, FinishKeepsLobby, LeaveReadKeeps, LeaveWriteKeeps,
       ReconnectKeeps, RestartKeepsLobby, SwitchKeepsLobby DEF Next
  <2> QED BY <2>1, <2>2
<1> QED BY <1>1, LobbyInitInv, PTL DEF Spec

\* Rooms, seats and requests keep their shape.
THEOREM LobbyTypesHold == Spec => []TypeOK
BY LobbyInvariant, PTL DEF LobbyInv

\* In a running solo game everybody has a question, or nobody has because the quiz had
\* none left: no join slips in between the start and the dealing, and nobody comes back to
\* a seat without what the others got (StartGame, JoinRoom).
THEOREM SeatsAreDealt == Spec => []EverySeatIsDealt
BY LobbyInvariant, PTL DEF LobbyInv

\* However many join at once and whenever the gates are armed, a room never takes in more
\* under the plan's cap than the cap; who was away and comes back is not counted (JoinRoom's
\* lock, reconnectPlayer).
THEOREM CapHolds == Spec => []CapBindsNewcomers
BY LobbyInvariant, PTL DEF LobbyInv

=============================================================================
