------------------------------- MODULE Ingest -------------------------------
(***************************************************************************)
(* Ingest (balancecheck/memory/ingest.py): human decisions in the event    *)
(* log become entries of the exemplar store.  Ingest is a process of its   *)
(* own that reads and writes three files - the log, the store and the meta *)
(* file with the consumed offset - in separate steps, and may be killed    *)
(* between any two of them or in the middle of a write; other processes    *)
(* append to the log meanwhile.  The store and the meta file are truncated *)
(* and written anew: a write cut short leaves a file that is empty or      *)
(* garbled.                                                                *)
(***************************************************************************)
EXTENDS MemoryStore, Sequences

CONSTANTS
    Fixtures,         \* scenario -> [pool, signature], the fixture files
    Decisions,        \* the decisions reviews may append
    MaxLines,         \* bound: lines other processes append
    MaxRuns,          \* bound: times ingest is started
    ReviewOverlaps,   \* a review may append decisions while ingest runs
    TornWrites        \* a kill may cut the write of the store or the meta file

ASSUME IngestAssumption ==
    /\ \A s \in DOMAIN Fixtures : Fixtures[s].pool \in {"A", "B"}
    /\ Decisions \subseteq [kind : {"decision"}, scenario : DOMAIN Fixtures,
                             pool : {"A", "B"},
                             action : {"approve", "edit", "decline"}]
    /\ MaxLines \in Nat
    /\ MaxRuns \in Nat
    /\ ReviewOverlaps \in BOOLEAN
    /\ TornWrites \in BOOLEAN

VARIABLES
    log,       \* the event log; line k has offset k - 1
    memory,    \* the entries in the store's file; none when it is empty
    meta,      \* the consumed offset in the meta file
    garbled,   \* the files whose text does not parse
    pc,        \* where ingest stands, "idle" when it does not run
    batch,     \* the entries built and not yet added
    counts,    \* entries added and evicted by this run
    through,   \* the line count about to be recorded
    runs,      \* times ingest was started
    learned,   \* history: entries add dealt with since the store was last cut
    forgotten  \* history: entries consumed before a cut of the store

history == <<learned, forgotten>>

vars == <<log, memory, meta, garbled, pc, batch, counts, through, runs, history>>

Weight(action) == IF action = "edit" THEN 2 ELSE 1

(***************************************************************************)
(* From a line of the log to an entry                                      *)
(***************************************************************************)
\* Pool A by the event and by its fixture, approved or edited.
Qualifies(line) ==
    /\ line.kind = "decision"
    /\ line.pool = "A"
    /\ line.action # "decline"
    /\ Fixtures[line.scenario].pool = "A"

EntryAt(offset) ==
    LET line == log[offset + 1]
    IN  [offset    |-> offset,
         signature |-> Fixtures[line.scenario].signature,
         weight    |-> Weight(line.action)]

\* Seeded fault: the last line is taken to be torn and left out.
Qualifying_NotLast(start) ==
    {n \in start..(Len(log) - 2) : Qualifies(log[n + 1])}

\* The offsets from start on that become entries, in log order.
Qualifying(start) ==
    {n \in start..(Len(log) - 1) : Qualifies(log[n + 1])}

\* Seeded fault: one line too many is skipped over.
Batch_Skips(start) == {EntryAt(n) : n \in Qualifying(start + 1)}

Batch(start) == {EntryAt(n) : n \in Qualifying(start)}

\* Entries are added in log order.
Oldest(entries) == {e \in entries : \A x \in entries : e.offset <= x.offset}

Init ==
    /\ log = << >>
    /\ memory = {}
    /\ meta = 0
    /\ garbled = {}
    /\ pc = "idle"
    /\ batch = {}
    /\ counts = <<0, 0>>
    /\ through = 0
    /\ runs = 0
    /\ learned = {}
    /\ forgotten = {}

(***************************************************************************)
(* The other processes                                                     *)
(***************************************************************************)
OtherLines == Cardinality({k \in DOMAIN log : log[k].kind # "ingest"})

AppendLine(line) ==
    /\ OtherLines < MaxLines
    /\ log' = Append(log, line)
    /\ UNCHANGED <<memory, meta, garbled, pc, batch, counts, through, runs, history>>

\* A review applies a decision.
Decide ==
    /\ pc = "idle" \/ ReviewOverlaps
    /\ \E line \in Decisions : AppendLine(line)

\* A pass logs one of its events.
LogOther == AppendLine([kind |-> "other"])

(***************************************************************************)
(* Ingest                                                                  *)
(***************************************************************************)
\* Read the meta file and the log, build every entry.
Start ==
    /\ pc = "idle"
    /\ runs < MaxRuns
    /\ "meta" \notin garbled
    /\ runs' = runs + 1
    /\ batch' = Batch(meta)
    /\ counts' = <<0, 0>>
    /\ pc' = "add"
    /\ UNCHANGED <<log, memory, meta, garbled, through, history>>

\* The meta file does not parse: ingest raises before it has done anything.
StartRaises ==
    /\ pc = "idle"
    /\ runs < MaxRuns
    /\ "meta" \in garbled
    /\ runs' = runs + 1
    /\ UNCHANGED <<log, memory, meta, garbled, pc, batch, counts, through, history>>

AddEntry ==
    /\ pc = "add"
    /\ "store" \notin garbled
    /\ \E e \in Oldest(batch) :
         /\ memory' = Add(memory, e)
         /\ counts' = <<counts[1] + 1,
                        counts[2] + Cardinality(Evicted(memory, e))>>
         /\ learned' = learned \cup {e}
         /\ batch' = batch \ {e}
    /\ UNCHANGED <<log, meta, garbled, pc, through, runs, forgotten>>

\* Seeded fault: what is recorded is how many entries were added.
CountLines_Added ==
    /\ pc = "add"
    /\ batch = {}
    /\ through' = counts[1]
    /\ pc' = "record"
    /\ UNCHANGED <<log, memory, meta, garbled, batch, counts, runs, history>>

CountLines ==
    /\ pc = "add"
    /\ batch = {}
    /\ through' = Len(log)
    /\ pc' = "record"
    /\ UNCHANGED <<log, memory, meta, garbled, batch, counts, runs, history>>

\* Seeded fault: the offset recorded is the last line's, not the count.
RecordOffset_LastLine ==
    /\ pc = "record"
    /\ meta' = through - 1
    /\ pc' = "report"
    /\ UNCHANGED <<log, memory, garbled, batch, counts, through, runs, history>>

RecordOffset ==
    /\ pc = "record"
    /\ meta' = through
    /\ pc' = "report"
    /\ UNCHANGED <<log, memory, garbled, batch, counts, through, runs, history>>

Report ==
    /\ pc = "report"
    /\ log' = Append(log, [kind |-> "ingest", through |-> through,
                           added |-> counts[1], evicted |-> counts[2],
                           memory |-> memory])
    /\ pc' = "idle"
    /\ UNCHANGED <<memory, meta, garbled, batch, counts, through, runs, history>>

\* The process is gone; what reached the files stays.
Ended ==
    /\ pc' = "idle"
    /\ batch' = {}
    /\ counts' = <<0, 0>>
    /\ through' = 0
    /\ UNCHANGED <<log, meta, runs>>

\* Killed between two of its steps.
Crash == pc # "idle" /\ Ended /\ UNCHANGED <<memory, garbled, history>>

\* The store's file does not parse: the next entry raises.
AddRaises ==
    /\ pc = "add"
    /\ batch # {}
    /\ "store" \in garbled
    /\ Ended
    /\ UNCHANGED <<memory, garbled, history>>

\* Killed while the store's file is written: its entries are gone.
CutStore ==
    /\ TornWrites
    /\ pc = "add"
    /\ "store" \notin garbled
    /\ \E e \in Oldest(batch) : \A x \in memory : x.offset # e.offset
    /\ memory' = {}
    /\ garbled' \in {garbled, garbled \cup {"store"}}
    /\ forgotten' = forgotten \cup {e \in learned : e.offset < meta}
    /\ learned' = {}
    /\ Ended

\* Killed while the meta file is written: empty or not, it does not parse.
CutMeta ==
    /\ TornWrites
    /\ pc = "record"
    /\ garbled' = garbled \cup {"meta"}
    /\ Ended
    /\ UNCHANGED <<memory, history>>

Next ==
    \/ Decide \/ LogOther
    \/ Start \/ StartRaises \/ AddEntry \/ AddRaises
    \/ CountLines \/ RecordOffset \/ Report
    \/ Crash \/ CutStore \/ CutMeta

Spec == Init /\ [][Next]_vars

-----------------------------------------------------------------------------
(***************************************************************************)
(* Properties                                                              *)
(***************************************************************************)
Entries == [offset : Nat, signature : {Fixtures[s].signature : s \in DOMAIN Fixtures},
            weight : {1, 2}]

Lines == Decisions \cup {[kind |-> "other"]}
           \cup [kind : {"ingest"}, through : Nat, added : Nat, evicted : Nat,
                 memory : SUBSET Entries]

\* Every variable keeps its type.
TypeOK ==
    /\ log \in Seq(Lines)
    /\ memory \subseteq Entries
    /\ meta \in Nat
    /\ garbled \subseteq {"store", "meta"}
    /\ pc \in {"idle", "add", "record", "report"}
    /\ batch \subseteq Entries
    /\ counts \in Nat \X Nat
    /\ through \in Nat
    /\ runs \in 0..MaxRuns
    /\ learned \subseteq Entries
    /\ forgotten \subseteq Entries

Signatures(S) == {e.signature : e \in S}

NewestOfEach(S) == UNION {Newest(SameClass(S, sig)) : sig \in Signatures(S)}

\* The store always holds exactly the newest ClassCap of everything it was
\* given since its file was last cut, class by class, whatever was re-added
\* after a kill: bringing an evicted entry back never displaces a newer one
\* (store.py:100-128, ingest.py:5-7).
MemoryIsNewest == memory = NewestOfEach(learned)

\* A decision counted as consumed has been given to the store: no kill between
\* the three files loses one, and a cut of the store loses those it held and no
\* others (ingest.py:12-15, 125-166).
ConsumedIsLearned ==
    \A n \in 0..(meta - 1) :
        Qualifies(log[n + 1]) => EntryAt(n) \in learned \cup forgotten

\* The event of a run tells what a reader of the log alone can work out: no
\* decision stands between the offset it names and its own line, and the memory
\* it names is the one that all decisions before it determine, whichever runs
\* were killed on the way, less what a cut of the store took
\* (ingest.py:19-21).
ReportMatchesLog ==
    LET k     == Len(log)
        given == {EntryAt(n) : n \in {j \in 0..(k - 2) : Qualifies(log[j + 1])}}
    IN  ( /\ log # << >>
          /\ log[k].kind = "ingest"
          /\ "store" \notin garbled )
        => /\ \A n \in log[k].through..(k - 2) : log[n + 1].kind # "decision"
           /\ log[k].memory = NewestOfEach(given \ forgotten)

\* Every consumed edit or approval has its entry in memory, unless newer ones
\* of its class took its place (ingest.py:12, store.py:9-12).  It does not
\* hold once a write of the store can be cut.
ConsumedIsKept ==
    \A n \in 0..(meta - 1) :
        Qualifies(log[n + 1]) =>
            \/ EntryAt(n) \in memory
            \/ Cardinality(Newer(SameClass(memory, EntryAt(n).signature),
                                 EntryAt(n))) >= ClassCap

\* The consumed offset never moves back (ingest.py:5-7).
OffsetNeverMovesBack == [][meta' >= meta]_vars

=============================================================================
