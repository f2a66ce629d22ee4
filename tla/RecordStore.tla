----------------------------- MODULE RecordStore -----------------------------
(***************************************************************************)
(* The record store of the API (store.py) and its import of the files an   *)
(* older version left: audits one file each, checked and then written;     *)
(* requests in one catalogue, imported in one transaction.                 *)
(*                                                                         *)
(* API processes start, import, serve writes and crash.  The payload of a  *)
(* row is reduced to its version: Legacy is what the old file holds, later *)
(* versions come from handlers.  A store keeps audits as JSON files        *)
(* (requests then go to an SQLite sidecar) or all rows in SQLite or        *)
(* PostgreSQL.                                                             *)
(***************************************************************************)
EXTENDS Integers, FiniteSets

CONSTANTS
  Process,            \* API processes that share the store; two threads of one
                      \* write like two processes
  Audit, Request,     \* ids of audit records and of requests
  LegacyAudits,       \* the audits that have a file in the data root
  LegacyRequests,     \* the requests of the old catalogue
  MaxVersion,         \* bound on the handlers' writes
  MaxCrashes          \* bound on the crashes

\* Audits are numbered in the order of their names; audits and requests are
\* tables of their own.
ASSUME StoreAssumption ==
  /\ Audit \subseteq Nat /\ Audit \cap Request = {}
  /\ LegacyAudits \subseteq Audit /\ IsFiniteSet(LegacyAudits)
  /\ LegacyRequests \subseteq Request
  /\ MaxVersion \in Nat \ {0} /\ MaxCrashes \in Nat

VARIABLES
  kind,         \* the store the processes were configured with
  rows,         \* rows[id]: the version the store holds
  acked,        \* acked[id]: the newest version a handler was told is stored
  version,      \* the newest version written
  pc,           \* pc[p]: what process p is doing, and with which id
  overlapped,   \* whether two processes were ever in the import of their starts
  mixed,        \* the JSON files in a write that overlapped another one of theirs
  crashes

storeVars == <<kind, rows, acked, version, pc, overlapped, mixed, crashes>>

Id == Audit \cup Request
Absent == 0
Legacy == 1
Torn == -1      \* a JSON file that a crash cut short or two writes left mixed

\* create_store and CloudSqlPostgresConfig: any other kind, and a PostgreSQL
\* store without its settings, stops the start.
StoreKind == {"json", "sqlite", "cloudsql-postgres"}

\* "then" is what follows the import of the files: the catalogue at the start
\* of a process, its request when a read imports them.
At(step, id, then) == [step |-> step, id |-> id, then |-> then]
Down == At("down", 0, "none")
Serving == At("serving", 0, "none")

StoreInit ==
  /\ kind \in StoreKind
  /\ rows = [id \in Id |-> IF kind = "json" /\ id \in LegacyAudits
                           THEN Legacy ELSE Absent]
  /\ acked = [id \in Id |-> Absent]
  /\ version = Legacy
  /\ pc = [p \in Process |-> Down]
  /\ overlapped = FALSE
  /\ mixed = {}
  /\ crashes = 0

Goto(p, place) == pc' = [pc EXCEPT ![p] = place]

\* The files are imported one by one, in the order of their names.
ImportFrom(p, files, then) ==
  IF files = {}
  THEN Goto(p, At(then, 0, IF then = "catalogue" THEN then ELSE "none"))
  ELSE Goto(p, At("check", CHOOSE a \in files : \A b \in files : a <= b, then))

\* The constructor of a SQL store goes through the files; the JSON store uses
\* them as they are.
Start(p) ==
  /\ pc[p] = Down
  /\ ImportFrom(p, IF kind = "json" THEN {} ELSE LegacyAudits, "catalogue")
  /\ UNCHANGED <<kind, rows, acked, version, crashes>>

Later(p) == {a \in LegacyAudits : a > pc[p].id}

\* _import_legacy_if_needed: is the row there?
HasRow(a) == rows[a] # Absent

CheckFile(p) ==
  LET a == pc[p].id
  IN /\ pc[p].step = "check"
     /\ IF HasRow(a) THEN ImportFrom(p, Later(p), pc[p].then)
                       ELSE Goto(p, At("upsert", a, pc[p].then))
     /\ UNCHANGED <<kind, rows, acked, version, crashes>>

\* ... and if not, its payload is written over whatever is there by now.
ImportFile(p) ==
  LET a == pc[p].id
  IN /\ pc[p].step = "upsert"
     /\ rows' = [rows EXCEPT ![a] = Legacy]
     /\ ImportFrom(p, Later(p), pc[p].then)
     /\ UNCHANGED <<kind, acked, version, crashes>>

\* Mutant: a row that exists is replaced.
MutatedImported(stored) == Legacy

\* INSERT ... ON CONFLICT DO NOTHING.
Imported(stored) == IF stored = Absent THEN Legacy ELSE stored

\* The catalogue is imported in one transaction: all of it, or, when it does
\* not parse, names an id twice or a statement fails, none, and the service
\* does not start.
ImportCatalogue(p) ==
  /\ pc[p].step = "catalogue"
  /\ \/ /\ rows' = [id \in Id |-> IF id \in LegacyRequests
                                  THEN Imported(rows[id]) ELSE rows[id]]
        /\ Goto(p, Serving)
     \/ /\ Goto(p, Down)
        /\ UNCHANGED rows
  /\ UNCHANGED <<kind, acked, version, crashes>>

\* A handler stores a version of its own.  SQLite answers when the upsert is
\* committed.
SqliteWrite(p, id) ==
  /\ pc[p] = Serving /\ version < MaxVersion
  /\ kind = "sqlite" \/ (kind = "json" /\ id \in Request)
  /\ version' = version + 1
  /\ rows' = [rows EXCEPT ![id] = version']
  /\ acked' = [acked EXCEPT ![id] = version']
  /\ UNCHANGED <<kind, pc, crashes>>

\* PostgreSQL: execute, commit, close; an error on the way is rolled back and
\* raised, and an error after the commit is raised although the row is stored.
PostgresWrite(p, id) ==
  /\ pc[p] = Serving /\ version < MaxVersion
  /\ kind = "cloudsql-postgres"
  /\ version' = version + 1
  /\ \/ /\ rows' = [rows EXCEPT ![id] = version']
        /\ acked' = [acked EXCEPT ![id] = version']
     \/ /\ rows' = [rows EXCEPT ![id] = version']
        /\ UNCHANGED acked
     \/ UNCHANGED <<rows, acked>>
  /\ UNCHANGED <<kind, pc, crashes>>

\* The JSON store opens the file, which empties it, and then writes it.
JsonTruncate(p, id) ==
  /\ pc[p] = Serving /\ version < MaxVersion
  /\ kind = "json" /\ id \in Audit
  /\ rows' = [rows EXCEPT ![id] = Torn]
  /\ Goto(p, At("write", id, "none"))
  /\ UNCHANGED <<kind, acked, version, crashes>>

\* Nothing locks the file: when another write has it open as well, the texts
\* may end up one over the other, and both handlers are told they are stored.
JsonWrite(p) ==
  LET id == pc[p].id
  IN /\ pc[p].step = "write"
     /\ version < MaxVersion
     /\ version' = version + 1
     /\ \/ rows' = [rows EXCEPT ![id] = version']
        \/ id \in mixed /\ rows' = [rows EXCEPT ![id] = Torn]
     /\ acked' = [acked EXCEPT ![id] = version']
     /\ Goto(p, Serving)
     /\ UNCHANGED <<kind, crashes>>

\* read and list_all of a SQL store import the files first, again.
ReadImportsAgain(p) ==
  /\ pc[p] = Serving /\ kind # "json"
  /\ ImportFrom(p, LegacyAudits, "serving")
  /\ UNCHANGED <<kind, rows, acked, version, crashes>>

Crash(p) ==
  /\ pc[p] # Down /\ crashes < MaxCrashes
  /\ crashes' = crashes + 1
  /\ Goto(p, Down)
  /\ UNCHANGED <<kind, rows, acked, version>>

\* Nothing keeps two processes from starting at once.
StartsOverlap ==
  \E p, q \in Process :
    p # q /\ pc[p].then = "catalogue" /\ pc[q].then = "catalogue"

Writing(a) == {p \in Process : pc[p].step = "write" /\ pc[p].id = a}

\* A write of a file overlaps another one's until none has it open.
FilesMixed(a) ==
  \/ a \in mixed /\ Writing(a)' # {}
  \/ Cardinality(Writing(a)') > 1

NoteOverlaps ==
  /\ overlapped' = (overlapped \/ StartsOverlap')
  /\ mixed' = {a \in Audit : FilesMixed(a)}

StoreNext ==
  /\ \E p \in Process :
       \/ Start(p)
       \/ CheckFile(p)
       \/ ImportFile(p)
       \/ ImportCatalogue(p)
       \/ \E id \in Id : SqliteWrite(p, id) \/ PostgresWrite(p, id) \/ JsonTruncate(p, id)
       \/ JsonWrite(p)
       \/ ReadImportsAgain(p)
       \/ Crash(p)
  /\ NoteOverlaps

-----------------------------------------------------------------------------
StoreTypeOK ==
  /\ kind \in StoreKind
  /\ rows \in [Id -> {Torn} \cup 0 .. MaxVersion]
  /\ acked \in [Id -> 0 .. MaxVersion]
  /\ version \in 1 .. MaxVersion
  /\ overlapped \in BOOLEAN /\ mixed \subseteq Audit
  /\ crashes \in 0 .. MaxCrashes

\* What a handler was told is stored is never replaced by anything older: not
\* by the import of a legacy file or catalogue, not by a crash in the middle of
\* an import, not by the import that every read repeats.  Three things can lose
\* it: a write of the same JSON file that a crash cut short, two such writes at
\* once, and the import of a process that started together with another one,
\* which brings back the file.
AcknowledgedIsKept ==
  \A id \in Id :
    \/ rows[id] >= acked[id]
    \/ kind = "json" /\ id \in Audit /\ rows[id] = Torn
    \/ kind # "json" /\ overlapped /\ id \in LegacyAudits /\ rows[id] = Legacy

\* The catalogue is imported as a whole, whatever fails or crashes: no request
\* of it is there unless all are, and a process that serves has all of them.
CatalogueIsWhole ==
  \/ \A r \in LegacyRequests : rows[r] # Absent
  \/ /\ \A r \in LegacyRequests : rows[r] # Legacy
     /\ \A p \in Process : pc[p].step # "serving"

\* The store keeps what it was given: StoreTypeOK, AcknowledgedIsKept and
\* CatalogueIsWhole.
StoreInvariant == StoreTypeOK /\ AcknowledgedIsKept /\ CatalogueIsWhole
=============================================================================
