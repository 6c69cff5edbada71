-------------------------------- MODULE Boot --------------------------------
(***************************************************************************)
(* The boot of every process that shares one deployment: cmd/server in its *)
(* three modes and cmd/seed, from the environment (internal/config) over   *)
(* the database and its migrations (internal/db/migrate.go), the bucket,   *)
(* the sweep and the discovery of the identity provider to a listener,     *)
(* and back down.                                                          *)
(*                                                                         *)
(* SQLite is external: the first connection to a file converts its journal *)
(* under the write lock, which refuses another first connection at once;   *)
(* BEGIN IMMEDIATE and an UPDATE wait for the lock, for as long as the     *)
(* busy timeout; what a transaction wrote is gone unless it commits.       *)
(***************************************************************************)
EXTENDS Naturals, Sequences

CONSTANTS
    Procs,
    Fleets,     \* the environments the processes may be started with
    Migrations, \* how many migrations are embedded
    Tries,      \* how often Migrate asks for a connection
    MaxFaults,  \* bound: failed calls, stalls, kills and signals
    MaxBoots,   \* bound: boots of one process
    Nobody

Environments ==
    [cmd : {"server", "seed", "none"}, mode : {"serve", "admin", "all", "other"},
     auth : {"token", "none", "oidc", "other"}, driver : {"s3compat", "mem", "other"},
     path : BOOLEAN, token : BOOLEAN, oidc : BOOLEAN, s3 : BOOLEAN]

ASSUME BootAssumption ==
    /\ Fleets \subseteq [Procs -> Environments]
    /\ Migrations \in Nat \ {0} /\ Tries \in Nat \ {0}
    /\ MaxFaults \in Nat /\ MaxBoots \in Nat \ {0}
    /\ Nobody \notin Procs
    \* without a path seed works on a temporary database, not on this file
    /\ \A fleet \in Fleets, p \in Procs : fleet[p].cmd = "seed" => fleet[p].path

VARIABLES
    env,      \* process -> its environment
    pc,       \* process -> the step it is at
    stopping, \* process -> its context is cancelled
    stalled,  \* process -> it makes no progress
    conn,     \* process -> its pool holds an open connection
    attempt,  \* process -> retries of Migrate's connection
    view,     \* process -> the migrations its transaction sees
    todo,     \* process -> its sweep read an interrupted toggle
    flow,     \* process -> the OIDC flow is wired
    wal,      \* the file's journal is converted
    lock,     \* holder of the file's write lock
    schema,   \* committed: the migrations in schema_migrations
    intent,   \* committed: a crash left a toggle in the middle
    bucket,   \* the bucket exists
    faults, boots

process == <<env, pc, stopping, stalled, conn, attempt, view, todo, flow>>
file == <<wal, lock, schema, intent>>
bounds == <<faults, boots>>
vars == <<process, file, bucket, bounds>>

AllMigrations == [i \in 1..Migrations |-> i]
Prefixes == {SubSeq(AllMigrations, 1, n) : n \in 0..Migrations}

Steps == {"off", "config", "connect", "convert", "acquire", "retry", "begin", "migrate",
          "record", "commit", "rollback", "storage", "bucket", "make", "sweep", "settle",
          "discover", "listening", "failed", "stopped", "killed"}
Ended == {"off", "failed", "stopped", "killed"}
Booting(p) == pc[p] \notin Ended \cup {"listening"}

(* Steps that run under the context of the signal.                         *)
Cancellable == {"connect", "convert", "acquire", "retry", "begin", "migrate", "record",
                "commit", "bucket", "make", "sweep", "settle", "discover"}

Init ==
    /\ env \in Fleets
    /\ pc = [p \in Procs |-> IF env[p].cmd = "none" THEN "off" ELSE "config"]
    /\ stopping = [p \in Procs |-> FALSE]
    /\ stalled = [p \in Procs |-> FALSE]
    /\ conn = [p \in Procs |-> FALSE]
    /\ attempt = [p \in Procs |-> 0]
    /\ view = [p \in Procs |-> <<>>]
    /\ todo = [p \in Procs |-> FALSE]
    /\ flow = [p \in Procs |-> FALSE]
    /\ lock = Nobody
    /\ bucket \in BOOLEAN
    /\ \/ wal = FALSE /\ schema = <<>> /\ intent = FALSE
       \/ /\ wal = TRUE
          /\ schema \in Prefixes \ {<<>>}
          /\ intent \in BOOLEAN
    /\ faults = 0
    /\ boots = [p \in Procs |-> 1]

-----------------------------------------------------------------------------
(* The environment.  "other" is any value Load refuses; LOG_LEVEL and the  *)
(* OTEL protocol are refused the same way.                                 *)
ModeOf(e) == IF e.mode = "other" THEN "all" ELSE e.mode
AuthOf(e) == IF e.auth = "other" THEN "token" ELSE e.auth

CredentialsFit(e) ==
    CASE AuthOf(e) = "token" -> e.token
      [] AuthOf(e) = "none" -> ~e.token
      [] AuthOf(e) = "oidc" -> e.oidc

Valid(e) ==
    /\ e.mode # "other" /\ e.auth # "other"
    /\ ModeOf(e) # "serve" => (e.path /\ CredentialsFit(e))
    /\ e.driver = "mem" \/ (e.driver = "s3compat" /\ e.s3)

At(p, step) == pc[p] = step /\ ~stalled[p]
Go(p, step) == pc' = [pc EXCEPT ![p] = step]
Fault == faults < MaxFaults /\ faults' = faults + 1
Keep(unchanged) == UNCHANGED <<env, stopping, stalled, boots, unchanged>>
Quiet == <<conn, attempt, view, todo, flow>>

Load(p) ==
    /\ At(p, "config")
    /\ Go(p, IF ~Valid(env[p]) THEN "failed"
             ELSE IF env[p].cmd = "seed" THEN "acquire"
             ELSE IF ModeOf(env[p]) = "serve" THEN "storage" ELSE "connect")
    /\ Keep(<<Quiet, file, bucket, faults>>)

-----------------------------------------------------------------------------
(* The first connection: Ping opens it for the server, Migrate for seed.   *)
Next1(p) == IF pc[p] = "connect" THEN "acquire" ELSE "begin"

Connect(p) ==
    /\ At(p, "connect") \/ At(p, "acquire")
    /\ ~conn[p] /\ ~wal /\ lock = Nobody
    /\ lock' = p
    /\ Go(p, "convert")
    /\ Keep(<<Quiet, wal, schema, intent, bucket, faults>>)

Convert(p) ==
    /\ At(p, "convert")
    /\ wal' = TRUE /\ lock' = Nobody
    /\ conn' = [conn EXCEPT ![p] = TRUE]
    /\ Go(p, IF env[p].cmd = "seed" THEN "begin" ELSE "acquire")
    /\ Keep(<<attempt, view, todo, flow, schema, intent, bucket, faults>>)

(* Nothing to convert, or Migrate takes the connection Ping left.          *)
Reuse(p) ==
    /\ At(p, "connect") \/ At(p, "acquire")
    /\ conn[p] \/ wal
    /\ conn' = [conn EXCEPT ![p] = TRUE]
    /\ Go(p, Next1(p))
    /\ Keep(<<attempt, view, todo, flow, file, bucket, faults>>)

PingBusy(p) ==
    /\ At(p, "connect")
    /\ ~conn[p] /\ ~wal /\ lock # Nobody
    /\ Go(p, "failed")
    /\ Keep(<<Quiet, file, bucket, faults>>)

(* Mutant: one attempt too many.                                           *)
AcquireBusyOnceMore(p) ==
    /\ At(p, "acquire")
    /\ ~conn[p] /\ ~wal /\ lock # Nobody
    /\ Go(p, IF attempt[p] = Tries THEN "failed" ELSE "retry")
    /\ Keep(<<Quiet, file, bucket, faults>>)

(* A connection is asked for three times, a quarter of a second apart.     *)
AcquireBusy(p) ==
    /\ At(p, "acquire")
    /\ ~conn[p] /\ ~wal /\ lock # Nobody
    /\ Go(p, IF attempt[p] = Tries - 1 THEN "failed" ELSE "retry")
    /\ Keep(<<Quiet, file, bucket, faults>>)

Retry(p) ==
    /\ At(p, "retry")
    /\ attempt' = [attempt EXCEPT ![p] = @ + 1]
    /\ Go(p, "acquire")
    /\ Keep(<<conn, view, todo, flow, file, bucket, faults>>)

-----------------------------------------------------------------------------
(* Migrate's one transaction                                               *)
Begin(p) ==
    /\ At(p, "begin")
    /\ lock = Nobody
    /\ lock' = p
    /\ view' = [view EXCEPT ![p] = schema]
    /\ Go(p, "migrate")
    /\ Keep(<<conn, attempt, todo, flow, wal, schema, intent, bucket, faults>>)

(* Mutant: the wait has no budget.                                         *)
WaitNever(p) == /\ At(p, "begin") /\ FALSE
                /\ UNCHANGED vars

(* The lock is not released within the busy timeout.                       *)
WaitTimeout(p) ==
    /\ At(p, "begin") \/ At(p, "settle")
    /\ lock # Nobody /\ stalled[lock]
    /\ Go(p, "failed")
    /\ Keep(<<Quiet, file, bucket, faults>>)

Apply(p) ==
    /\ At(p, "migrate")
    /\ Go(p, IF Len(view[p]) = Migrations THEN "commit" ELSE "record")
    /\ Keep(<<Quiet, file, bucket, faults>>)

(* Mutant: every migration commits by itself.                              *)
RecordAtOnce(p) ==
    /\ At(p, "record")
    /\ view' = [view EXCEPT ![p] = Append(@, Len(@) + 1)]
    /\ schema' = view'[p]
    /\ Go(p, "migrate")
    /\ Keep(<<conn, attempt, todo, flow, wal, lock, intent, bucket, faults>>)

(* The version is recorded in the transaction that applied it.             *)
Record(p) ==
    /\ At(p, "record")
    /\ view' = [view EXCEPT ![p] = Append(@, Len(@) + 1)]
    /\ Go(p, "migrate")
    /\ Keep(<<conn, attempt, todo, flow, file, bucket, faults>>)

Commit(p) ==
    /\ At(p, "commit")
    /\ schema' = view[p]
    /\ lock' = Nobody
    /\ Go(p, "storage")
    /\ Keep(<<Quiet, wal, intent, bucket, faults>>)

MigrateFails(p) ==
    /\ At(p, "migrate") \/ At(p, "record") \/ At(p, "commit")
    /\ Fault
    /\ Go(p, "rollback")
    /\ Keep(<<Quiet, file, bucket>>)

(* ROLLBACK runs although the context is cancelled.                        *)
Rollback(p) ==
    /\ At(p, "rollback")
    /\ lock' = Nobody
    /\ view' = [view EXCEPT ![p] = <<>>]
    /\ Go(p, "failed")
    /\ Keep(<<conn, attempt, todo, flow, wal, schema, intent, bucket, faults>>)

-----------------------------------------------------------------------------
(* Storage, bucket, sweep, discovery                                       *)
AfterBucket(p) == IF env[p].cmd = "seed" THEN "listening" ELSE "sweep"

OpenStorage(p) ==
    /\ At(p, "storage")
    /\ Go(p, IF ~conn[p] THEN "listening"
             ELSE IF env[p].driver = "s3compat" THEN "bucket" ELSE AfterBucket(p))
    /\ Keep(<<Quiet, file, bucket, faults>>)

BucketExists(p) ==
    /\ At(p, "bucket")
    /\ Go(p, IF bucket THEN AfterBucket(p) ELSE "make")
    /\ Keep(<<Quiet, file, bucket, faults>>)

(* S3 refuses to make a bucket a second time.                              *)
MakeBucket(p) ==
    /\ At(p, "make")
    /\ bucket' = TRUE
    /\ Go(p, IF bucket THEN "failed" ELSE AfterBucket(p))
    /\ Keep(<<Quiet, file, faults>>)

AfterSweep(p) == IF AuthOf(env[p]) = "oidc" THEN "discover" ELSE "listening"

SweepQuery(p) ==
    /\ At(p, "sweep")
    /\ todo' = [todo EXCEPT ![p] = intent]
    /\ Go(p, IF intent THEN "settle" ELSE AfterSweep(p))
    /\ Keep(<<conn, attempt, view, flow, file, bucket, faults>>)

(* The guarded UPDATE of finalize matches no row that another sweep has     *)
(* settled, which is an error.                                             *)
SweepSettle(p) ==
    /\ At(p, "settle")
    /\ lock = Nobody
    /\ intent' = FALSE
    /\ Go(p, IF intent THEN AfterSweep(p) ELSE "failed")
    /\ Keep(<<Quiet, wal, lock, schema, bucket, faults>>)

Discover(p) ==
    /\ At(p, "discover")
    /\ flow' = [flow EXCEPT ![p] = TRUE]
    /\ Go(p, "listening")
    /\ Keep(<<conn, attempt, view, todo, file, bucket, faults>>)

(* Mutant: discovery that fails is only warned about.                      *)
DiscoverWarns(p) ==
    /\ At(p, "discover")
    /\ Fault
    /\ Go(p, "listening")
    /\ Keep(<<Quiet, file, bucket>>)

(* The issuer is unreachable, is another one, or lacks endpoints.          *)
DiscoverFails(p) ==
    /\ At(p, "discover")
    /\ Fault
    /\ Go(p, "failed")
    /\ Keep(<<Quiet, file, bucket>>)

(* Any other call fails; a step that fails ends the boot.                  *)
StepFails(p) ==
    /\ \E step \in {"connect", "convert", "acquire", "begin", "storage", "bucket", "make",
                    "sweep", "settle", "listening"} : At(p, step)
    /\ Fault
    /\ Go(p, "failed")
    /\ lock' = IF lock = p THEN Nobody ELSE lock
    /\ Keep(<<Quiet, wal, schema, intent, bucket>>)

-----------------------------------------------------------------------------
(* Signals, stalls, kills                                                  *)
Signal(p) ==
    /\ env[p].cmd = "server"
    /\ pc[p] \notin Ended \cup {"config"}
    /\ ~stopping[p]
    /\ Fault
    /\ stopping' = [stopping EXCEPT ![p] = TRUE]
    /\ UNCHANGED <<env, pc, stalled, Quiet, file, bucket, boots>>

Cancelled(p) ==
    /\ stopping[p] /\ ~stalled[p]
    /\ pc[p] \in Cancellable
    /\ Go(p, IF pc[p] \in {"migrate", "record", "commit"} THEN "rollback" ELSE "failed")
    /\ lock' = IF pc[p] = "convert" THEN Nobody ELSE lock
    /\ Keep(<<Quiet, wal, schema, intent, bucket, faults>>)

(* listen shuts down on a signal; seed is done after its one upload.       *)
Shutdown(p) ==
    /\ At(p, "listening")
    /\ stopping[p] \/ env[p].cmd = "seed"
    /\ Go(p, "stopped")
    /\ Keep(<<Quiet, file, bucket, faults>>)

(* A disk or a network that does not answer, for a while or for ever.      *)
Stall(p) ==
    /\ pc[p] \in Cancellable \cup {"rollback"}
    /\ ~stalled[p]
    /\ Fault
    /\ stalled' = [stalled EXCEPT ![p] = TRUE]
    /\ UNCHANGED <<env, pc, stopping, Quiet, file, bucket, boots>>

Wake(p) ==
    /\ stalled[p]
    /\ stalled' = [stalled EXCEPT ![p] = FALSE]
    /\ UNCHANGED <<env, pc, stopping, Quiet, file, bucket, bounds>>

(* A killed admin process may have been in the middle of a toggle.         *)
Kill(p) ==
    /\ pc[p] \notin Ended \cup {"config"}
    /\ Fault
    /\ Go(p, "killed")
    /\ stalled' = [stalled EXCEPT ![p] = FALSE]
    /\ lock' = IF lock = p THEN Nobody ELSE lock
    /\ intent' \in IF pc[p] = "listening" /\ conn[p] THEN {intent, TRUE} ELSE {intent}
    /\ UNCHANGED <<env, stopping, Quiet, wal, schema, bucket, boots>>

Restart(p) ==
    /\ pc[p] \in Ended \ {"off"}
    /\ boots[p] < MaxBoots
    /\ boots' = [boots EXCEPT ![p] = @ + 1]
    /\ Go(p, "config")
    /\ stopping' = [stopping EXCEPT ![p] = FALSE]
    /\ conn' = [conn EXCEPT ![p] = FALSE]
    /\ attempt' = [attempt EXCEPT ![p] = 0]
    /\ view' = [view EXCEPT ![p] = <<>>]
    /\ todo' = [todo EXCEPT ![p] = FALSE]
    /\ flow' = [flow EXCEPT ![p] = FALSE]
    /\ UNCHANGED <<env, stalled, file, bucket, faults>>

Progress(p) ==
    \/ Load(p) \/ Connect(p) \/ Convert(p) \/ Reuse(p) \/ PingBusy(p)
    \/ AcquireBusy(p) \/ Retry(p) \/ Begin(p) \/ WaitTimeout(p) \/ Apply(p)
    \/ Record(p) \/ Commit(p) \/ Rollback(p) \/ OpenStorage(p) \/ BucketExists(p)
    \/ MakeBucket(p) \/ SweepQuery(p) \/ SweepSettle(p) \/ Discover(p)
    \/ Cancelled(p) \/ Shutdown(p)

Next == \E p \in Procs :
    \/ Progress(p)
    \/ MigrateFails(p) \/ DiscoverFails(p) \/ StepFails(p)
    \/ Signal(p) \/ Stall(p) \/ Wake(p) \/ Kill(p) \/ Restart(p)

Spec == Init /\ [][Next]_vars
FairSpec == Spec /\ \A p \in Procs : WF_vars(Progress(p))

-----------------------------------------------------------------------------
(* Properties.                                                             *)

(* Every variable keeps its type.                                          *)
TypeOK ==
    /\ env \in Fleets /\ pc \in [Procs -> Steps]
    /\ stopping \in [Procs -> BOOLEAN] /\ stalled \in [Procs -> BOOLEAN]
    /\ conn \in [Procs -> BOOLEAN] /\ attempt \in [Procs -> 0..(Tries - 1)]
    /\ todo \in [Procs -> BOOLEAN] /\ flow \in [Procs -> BOOLEAN]
    /\ view \in [Procs -> Prefixes]
    /\ wal \in BOOLEAN /\ lock \in Procs \cup {Nobody}
    /\ schema \in Prefixes
    /\ intent \in BOOLEAN /\ bucket \in BOOLEAN
    /\ faults \in 0..MaxFaults /\ boots \in [Procs -> 1..MaxBoots]

(* Whatever fails, is killed or races, the schema goes from what it was to *)
(* all embedded migrations in one step: no process sees half of a run, and *)
(* none applies what another has committed (migrate.go: one BEGIN          *)
(* IMMEDIATE transaction, versions read inside it).                        *)
SchemaMovesWhole ==
    [][/\ schema' # schema => Len(schema) < Migrations /\ schema' = AllMigrations
       /\ \A p \in Procs : pc[p] = "record" => Len(view[p]) >= Len(schema)]_vars

(* A process that listens has everything its planes need: an admin plane a *)
(* migrated database, a bucket, and either a way to authenticate or the    *)
(* explicit decision to go without; a serve plane has no database at all.  *)
(* seed always has an admin plane, whatever SERVER_MODE says (main.go      *)
(* runServe, runAdminAll; config.go Load; seed/main.go run).               *)
HasAdmin(e) == e.cmd = "seed" \/ ModeOf(e) # "serve"

ListeningIsReady ==
    \A p \in Procs : pc[p] = "listening" =>
        LET e == env[p]
            guarded == e.cmd = "server" /\ HasAdmin(e)
        IN
        /\ HasAdmin(e) => (conn[p] /\ schema = AllMigrations /\ e.path)
        /\ ~HasAdmin(e) => (~conn[p] /\ lock # p)
        /\ e.driver = "s3compat" => (e.s3 /\ (HasAdmin(e) => bucket))
        /\ (guarded /\ e.auth # "none") => (e.token \/ flow[p])
        /\ (guarded /\ e.auth = "none") => ~e.token

(* A boot ends: the process listens or has exited, unless it is stuck      *)
(* itself; a process that waits for one that is stuck gives up (migrate.go *)
(* _busy_timeout), and a signal ends a process wherever it is.             *)
EveryBootEnds ==
    \A p \in Procs :
        /\ Booting(p) ~> (~Booting(p) \/ stalled[p])
        /\ stopping[p] ~> (pc[p] \in Ended \/ ~stopping[p] \/ stalled[p])

(* Processes that boot on one file with a valid configuration all succeed  *)
(* unless something else fails (openspec/specs/sqlite-persistence/spec.md: *)
(* both boots succeed with the schema applied exactly once).               *)
BothBootsSucceed ==
    \A p \in Procs : (pc[p] = "failed" /\ Valid(env[p])) => faults > 0
=============================================================================
