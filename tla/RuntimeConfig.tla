--------------------------- MODULE RuntimeConfig ---------------------------
(***************************************************************************)
(* Configuration that is changed while the service runs.  The value of an  *)
(* item is a row of the database, every process keeps a copy of it for a   *)
(* while, and an administrator changes the row and clears the copy of the  *)
(* process that served him only.  A read of the row takes three steps, and *)
(* requests read in every process at the same time.                        *)
(***************************************************************************)
EXTENDS Integers, FiniteSets

CONSTANTS
  Process,        \* processes of the service
  Reader,         \* requests that may read at the same time
  Ttl,            \* how long a copy is used
  LastTick,       \* bound: the last moment of the clock
  ConfigWrites    \* bound: changes of the configuration

ASSUME ConfigAssumption ==
  IsFiniteSet(Process) /\ {Ttl, LastTick, ConfigWrites} \subseteq Nat

VARIABLES
  tick,         \* the clock
  configRow,    \* the value in the database, or "none"
  configCopy,   \* the copy of each process
  configRead,   \* the reads under way
  saving,       \* the processes whose change is stored but not yet cleared
  writes,       \* changes so far
  used,         \* the value used last, and since when it must have been in force
  inForce,      \* when each value was the one in the database last
  failedAt      \* when a process could not read the database last

configVars == <<tick, configRow, configCopy, configRead, saving, writes, used,
                inForce, failedAt>>

\* What validate_config_value accepts, and what a row may be besides: missing,
\* or of a shape that a newer version does not accept.
ValidValues == {"default", "strict"}
RowValues == ValidValues \cup {"none", "odd"}
LongAgo == 0 - Ttl - 1

NoCopy == [at |-> LongAgo, value |-> "none"]
NoRead == [step |-> "idle"]
NotUsed == [value |-> "none"]

ConfigTypeOK ==
  /\ tick \in 0 .. LastTick
  /\ configRow \in RowValues
  /\ \A p \in Process : configCopy[p].value \in RowValues
  /\ \A r \in Reader : configRead[r].step \in {"idle", "reads", "keeps"}
  /\ saving \subseteq Process
  /\ writes \in 0 .. ConfigWrites
  /\ used.value \in ValidValues \cup {"none"}

ConfigInit ==
  /\ tick = 0
  /\ configRow \in {"none", "odd"}
  /\ configCopy = [p \in Process |-> NoCopy]
  /\ configRead = [r \in Reader |-> NoRead]
  /\ saving = {}
  /\ writes = 0
  /\ used = NotUsed
  /\ inForce = [v \in RowValues |-> IF v = configRow THEN 0 ELSE LongAgo]
  /\ failedAt = [p \in Process |-> LongAgo]

-----------------------------------------------------------------------------
(* Values.                                                                 *)

\* Without a row, or with one that is no valid value, the default is used.
Validated(value) == IF value \in ValidValues THEN value ELSE "default"

\* What the administrator is shown: the row as it is, or the default.
Listed == IF configRow = "none" THEN "default" ELSE configRow

\* Seeded bug: a copy is of use for one moment too many.
FreshLonger(copy) == tick - copy.at <= Ttl

\* A copy is of use for a while, counted from before it was read.
Fresh(copy) == tick - copy.at < Ttl

-----------------------------------------------------------------------------
(* Changes.                                                                *)

\* The commit of SysConfigService.update: the item as a whole.
UpdatesConfig(p, value) ==
  /\ writes < ConfigWrites /\ p \notin saving
  /\ configRow' = value
  /\ inForce' = [inForce EXCEPT ![value] = tick, ![configRow] = tick]
  /\ saving' = saving \cup {p}
  /\ writes' = writes + 1
  /\ UNCHANGED <<tick, configCopy, configRead, used, failedAt>>

\* The row is read back, and then the copy of this process is cleared.
Invalidates(p) ==
  /\ p \in saving
  /\ saving' = saving \ {p}
  /\ configCopy' = [configCopy EXCEPT ![p] = NoCopy]
  /\ UNCHANGED <<tick, configRow, configRead, writes, used, inForce, failedAt>>

-----------------------------------------------------------------------------
(* Reads.                                                                  *)

Uses(p, value, since) ==
  used' = [value |-> Validated(value), row |-> value, process |-> p, since |-> since]

\* _load_raw: the copy, or else the time is taken and the row will be read.
LooksUp(r, p) ==
  /\ configRead[r] = NoRead
  /\ IF Fresh(configCopy[p])
     THEN Uses(p, configCopy[p].value, tick - Ttl + 1) /\ UNCHANGED configRead
     ELSE /\ configRead' = [configRead EXCEPT ![r] =
                              [step |-> "reads", process |-> p, stamp |-> tick]]
          /\ UNCHANGED used
  /\ UNCHANGED <<tick, configRow, configCopy, saving, writes, inForce, failedAt>>

\* The row, or nothing when it cannot be read.
ReadsRowOfConfig(r, fails) ==
  /\ configRead[r].step = "reads"
  /\ LET read == configRead[r]
     IN /\ configRead' = [configRead EXCEPT ![r] =
                            [step |-> "keeps", process |-> read.process,
                             stamp |-> read.stamp,
                             value |-> IF fails THEN "none" ELSE configRow]]
        /\ failedAt' = IF fails THEN [failedAt EXCEPT ![read.process] = tick]
                       ELSE failedAt
  /\ UNCHANGED <<tick, configRow, configCopy, saving, writes, used, inForce>>

\* The savepoint was released: what was read is kept and used, whatever was
\* cleared meanwhile.
Keeps(r) ==
  /\ configRead[r].step = "keeps"
  /\ LET read == configRead[r]
     IN /\ configCopy' = [configCopy EXCEPT ![read.process] =
                            [at |-> read.stamp, value |-> read.value]]
        /\ Uses(read.process, read.value, read.stamp)
  /\ configRead' = [configRead EXCEPT ![r] = NoRead]
  /\ UNCHANGED <<tick, configRow, saving, writes, inForce, failedAt>>

Ticks ==
  /\ tick < LastTick
  /\ tick' = tick + 1
  /\ inForce' = [inForce EXCEPT ![configRow] = tick + 1]
  /\ used' = NotUsed
  /\ UNCHANGED <<configRow, configCopy, configRead, saving, writes, failedAt>>

ConfigNext ==
  \/ \E p \in Process :
       \/ \E value \in ValidValues : UpdatesConfig(p, value)
       \/ Invalidates(p)
       \/ \E r \in Reader : LooksUp(r, p)
  \/ \E r \in Reader :
       \/ Keeps(r)
       \/ \E fails \in BOOLEAN : ReadsRowOfConfig(r, fails)
  \/ Ticks

ConfigSpec == ConfigInit /\ [][ConfigNext]_configVars

-----------------------------------------------------------------------------
(* Properties.                                                             *)

\* What a request uses was in the database within the lifetime of a copy, or
\* since the request began to read it, in every process, and though a read
\* that began before a change is kept after it; only a failed read stands for
\* a missing row.
UsedWasInForce ==
  used # NotUsed =>
    \/ inForce[used.row] >= used.since
    \/ used.row = "none" /\ failedAt[used.process] >= used.since

\* If the row did not change since then and could be read, a request uses what
\* the administrator is shown, unless that is no valid value.
UsesWhatIsListed ==
  /\ used # NotUsed
  /\ \A v \in RowValues \ {configRow} : inForce[v] < used.since
  /\ \A p \in Process : failedAt[p] < used.since
  => used.value = Listed \/ Listed \notin ValidValues

\* A change reaches every process within the lifetime of a copy, however reads
\* and changes overlap (runtime_config.py, sys_config.py).
ConfigHolds == UsedWasInForce /\ UsesWhatIsListed

=============================================================================
