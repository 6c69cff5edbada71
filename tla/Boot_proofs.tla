---------------------------- MODULE Boot_proofs ----------------------------
(***************************************************************************)
(* The safety properties of Boot, for any number of processes, migrations  *)
(* and failures and for every environment.  IInv ties the step a process   *)
(* is at to what its boot has secured by then; the write lock is what      *)
(* keeps a second process from moving the schema under a transaction, so   *)
(* the lock's holder is part of it.                                        *)
(***************************************************************************)
EXTENDS Boot, TLAPS

Prefix(n) == SubSeq(AllMigrations, 1, n)

\* The steps that hold the file's write lock, those that run in Migrate's
\* transaction, and those after it.
Transaction == {"migrate", "record", "commit", "rollback"}
Locking == Transaction \cup {"convert"}
Database == Locking \cup {"connect", "acquire", "retry", "begin"}
Swept == {"sweep", "settle", "discover"}
Late == Swept \cup {"storage", "bucket", "make", "listening"}

\* What the environment has to say for itself at p's step.
Configured(p) ==
    /\ pc[p] \notin Ended \cup {"config"} => Valid(env[p])
    /\ pc[p] \in Database => HasAdmin(env[p])

\* p's pool is open once its boot needs it, and only then.
Connected(p) ==
    /\ pc[p] = "config" => ~conn[p]
    /\ pc[p] \in Transaction \cup {"begin", "bucket", "make"} \cup Swept => conn[p]
    /\ pc[p] \in Late => (conn[p] <=> HasAdmin(env[p]))

\* The transaction of p works on what is committed, and ends with all of it.
Migrating(p) ==
    /\ lock = p <=> pc[p] \in Locking
    /\ pc[p] = "retry" => attempt[p] < Tries - 1
    /\ pc[p] \in {"migrate", "record", "commit"} => Len(view[p]) >= Len(schema)
    /\ pc[p] = "record" => Len(view[p]) < Migrations
    /\ pc[p] = "commit" => view[p] = AllMigrations

\* What p has secured on its way to the listener.
Secured(p) ==
    /\ (pc[p] \in Late /\ conn[p]) => schema = AllMigrations
    /\ (pc[p] \in Swept \cup {"listening"} /\ conn[p] /\ env[p].driver = "s3compat") => bucket
    /\ pc[p] \in Swept => env[p].cmd # "seed"
    /\ (pc[p] = "listening" /\ conn[p] /\ env[p].cmd = "server" /\ AuthOf(env[p]) = "oidc")
        => flow[p]

Control(p) == Configured(p) /\ Connected(p) /\ Migrating(p) /\ Secured(p)

IInv == TypeOK /\ \A p \in Procs : Control(p)

-----------------------------------------------------------------------------
(* Prefixes of the embedded migrations                                     *)

\* A prefix of n migrations has length n; recording the next one lengthens it.
LEMMA PrefixFacts ==
    ASSUME NEW n \in 0..Migrations
    PROVE  /\ Prefix(n) \in Seq(Nat) /\ Len(Prefix(n)) = n
           /\ n < Migrations => Append(Prefix(n), n + 1) = Prefix(n + 1)
<1>1. AllMigrations \in Seq(Nat) /\ Len(AllMigrations) = Migrations
  BY BootAssumption DEF AllMigrations
<1>2. ASSUME NEW m \in 0..Migrations
      PROVE  Prefix(m) \in Seq(Nat) /\ Len(Prefix(m)) = m /\ Prefix(m) = [i \in 1..m |-> i]
  BY <1>1, <1>2, BootAssumption DEF Prefix, AllMigrations
<1>3. ASSUME n < Migrations PROVE Append(Prefix(n), n + 1) = Prefix(n + 1)
  <2>1. n + 1 \in 0..Migrations BY <1>3, BootAssumption
  <2>2. Append(Prefix(n), n + 1) = [i \in 1..(n + 1) |-> i] BY <1>2
  <2> QED BY <1>2, <2>1, <2>2
<1> QED BY <1>2, <1>3

\* The first prefix is empty and the last is all of them; a prefix is known
\* by its length.
LEMMA PrefixEnds ==
    /\ <<>> \in Prefixes /\ Len(<<>>) = 0
    /\ AllMigrations \in Prefixes /\ Len(AllMigrations) = Migrations
    /\ \A s \in Prefixes : /\ s \in Seq(Nat)
                           /\ Len(s) \in 0..Migrations
                           /\ Len(s) = Migrations => s = AllMigrations
                           /\ Len(s) < Migrations => Append(s, Len(s) + 1) \in Prefixes
<1>1. Prefix(0) = <<>> /\ 0 \in 0..Migrations BY BootAssumption DEF Prefix, AllMigrations
<1>2. AllMigrations \in Seq(Nat) /\ Len(AllMigrations) = Migrations
  BY BootAssumption DEF AllMigrations
<1>3. Prefix(Migrations) = AllMigrations /\ Migrations \in 0..Migrations
  BY <1>2, BootAssumption DEF Prefix
<1>4. ASSUME NEW s \in Prefixes
      PROVE  /\ s \in Seq(Nat)
             /\ Len(s) \in 0..Migrations
             /\ Len(s) = Migrations => s = AllMigrations
             /\ Len(s) < Migrations => Append(s, Len(s) + 1) \in Prefixes
  <2>1. PICK n \in 0..Migrations : s = Prefix(n) BY DEF Prefixes, Prefix
  <2>2. Len(s) = n BY <2>1, PrefixFacts
  <2>3. n < Migrations => n + 1 \in 0..Migrations BY BootAssumption
  <2> QED BY <1>3, <2>1, <2>2, <2>3, PrefixFacts DEF Prefixes, Prefix
<1> QED BY <1>1, <1>2, <1>3, <1>4 DEF Prefixes, Prefix

-----------------------------------------------------------------------------
(* The induction                                                           *)

\* A step of p as every other process sees it: the file's schema moves only
\* under p's lock and to all migrations, and the bucket stays.
Frame(p) ==
    /\ env' = env /\ (bucket => bucket')
    /\ schema' = schema \/ (schema' = AllMigrations /\ lock = p)
    /\ \A q \in Procs \ {p} :
        /\ pc'[q] = pc[q] /\ conn'[q] = conn[q] /\ attempt'[q] = attempt[q]
        /\ view'[q] = view[q] /\ flow'[q] = flow[q]
        /\ lock' = q <=> lock = q

\* What a step of p leaves alone stays as the invariant wants it.
LEMMA Others ==
    ASSUME IInv, NEW p \in Procs, NEW q \in Procs \ {p}, Frame(p) PROVE Control(q)'
<1>1. Control(q) /\ (lock = q => lock # p) BY DEF IInv
<1>2. pc[q] \in {"migrate", "record", "commit"} => schema' = schema
  BY <1>1 DEF Control, Migrating, Frame, Locking, Transaction
<1>3. Configured(q)' /\ Connected(q)'
  BY <1>1 DEF Control, Configured, Connected, Frame
<1>4. Migrating(q)' BY <1>1, <1>2 DEF Control, Migrating, Frame
<1>5. Secured(q)' BY <1>1 DEF Control, Secured, Frame
<1> QED BY <1>3, <1>4, <1>5 DEF Control

LEMMA InitIInv == Init => IInv
<1> SUFFICES ASSUME Init PROVE IInv OBVIOUS
<1>1. TypeOK
  <2>1. schema \in Prefixes BY PrefixEnds DEF Init
  <2>2. pc \in [Procs -> Steps] BY DEF Init, Steps
  <2>3. view \in [Procs -> Prefixes] BY PrefixEnds DEF Init
  <2>4. wal \in BOOLEAN /\ intent \in BOOLEAN BY DEF Init
  <2> QED BY <2>1, <2>2, <2>3, <2>4, BootAssumption DEF Init, TypeOK
<1>2. ASSUME NEW p \in Procs PROVE Control(p)
  <2>1. pc[p] \in {"off", "config"} /\ lock # p /\ conn[p] = FALSE
    BY BootAssumption DEF Init
  <2> QED BY <2>1 DEF Control, Configured, Connected, Migrating, Secured, Locking,
                      Transaction, Database, Late, Swept, Ended
<1> QED BY <1>1, <1>2 DEF IInv

\* A step of p that keeps the types, p's control and the frame is inductive.
LEMMA Inductive ==
    ASSUME IInv, NEW p \in Procs, TypeOK', Control(p)', Frame(p) PROVE IInv'
  BY Others DEF IInv



\* The facts every step needs: the types, and p's own control.
LEMMA Facts ==
    ASSUME IInv, NEW p \in Procs
    PROVE  /\ TypeOK /\ Control(p) /\ env[p] \in Environments
           /\ (env[p].cmd = "seed" => env[p].path)
           /\ pc \in [Procs -> Steps] /\ conn \in [Procs -> BOOLEAN]
           /\ attempt \in [Procs -> 0..(Tries - 1)] /\ Tries \in Nat \ {0}
           /\ flow \in [Procs -> BOOLEAN]
           /\ view \in [Procs -> Prefixes] /\ schema \in Prefixes
           /\ Len(view[p]) \in 0..Migrations /\ Len(schema) \in 0..Migrations
           /\ (Len(view[p]) = Migrations => view[p] = AllMigrations)
           /\ Nobody \notin Procs /\ lock \in Procs \cup {Nobody} /\ bucket \in BOOLEAN
  BY BootAssumption, PrefixEnds DEF IInv, TypeOK

\* From the environment to a connection, with its retries.
LEMMA OpenSteps ==
    ASSUME IInv, NEW p \in Procs,
           \/ Load(p) \/ Connect(p) \/ Convert(p) \/ Reuse(p)
           \/ PingBusy(p) \/ AcquireBusy(p) \/ Retry(p)
    PROVE  TypeOK' /\ Control(p)' /\ Frame(p)
<1> USE DEF At, Go, Keep, Quiet, file, bounds
<1> USE DEF Control, Configured, Connected, Migrating, Secured, Locking, Transaction,
      Database, Late, Swept, Ended
<1>1. CASE Load(p)
  <2>1. TypeOK' BY Facts, <1>1 DEF Load, HasAdmin, Environments, TypeOK, Steps
  <2>2. Frame(p) BY Facts, <1>1 DEF Load, HasAdmin, Environments, Frame
  <2>3. Control(p)' BY Facts, <1>1 DEF Load, HasAdmin, Environments
  <2> QED BY <2>1, <2>2, <2>3
<1>2. CASE Connect(p)
  <2>1. TypeOK' BY Facts, <1>2 DEF Connect, TypeOK, Steps
  <2>2. Frame(p) BY Facts, <1>2 DEF Connect, Frame
  <2>3. Control(p)' BY Facts, <1>2 DEF Connect
  <2> QED BY <2>1, <2>2, <2>3
<1>3. CASE Convert(p)
  <2>1. TypeOK' BY Facts, <1>3 DEF Convert, HasAdmin, TypeOK, Steps
  <2>2. Frame(p) BY Facts, <1>3 DEF Convert, HasAdmin, Frame
  <2>3. Control(p)' BY Facts, <1>3 DEF Convert, HasAdmin
  <2> QED BY <2>1, <2>2, <2>3
<1>4. CASE Reuse(p)
  <2>1. TypeOK' BY Facts, <1>4 DEF Reuse, Next1, TypeOK, Steps
  <2>2. Frame(p) BY Facts, <1>4 DEF Reuse, Next1, Frame
  <2>3. Control(p)' BY Facts, <1>4 DEF Reuse, Next1
  <2> QED BY <2>1, <2>2, <2>3
<1>5. CASE PingBusy(p)
  <2>1. TypeOK' BY Facts, <1>5 DEF PingBusy, TypeOK, Steps
  <2>2. Frame(p) BY Facts, <1>5 DEF PingBusy, Frame
  <2>3. Control(p)' BY Facts, <1>5 DEF PingBusy
  <2> QED BY <2>1, <2>2, <2>3
<1>6. CASE AcquireBusy(p)
  <2>1. TypeOK' BY Facts, <1>6, BootAssumption DEF AcquireBusy, TypeOK, Steps
  <2>2. Frame(p) BY Facts, <1>6, BootAssumption DEF AcquireBusy, Frame
  <2>3. Control(p)'
    <3>1. Configured(p)' /\ Connected(p)' /\ Secured(p)' BY Facts, <1>6 DEF AcquireBusy
    <3>2. Migrating(p)'
      <4>1. attempt[p] \in 0..(Tries - 1) BY Facts
      <4>2. attempt[p] # Tries - 1 => attempt[p] < Tries - 1 BY <4>1, Facts
      <4> QED BY <4>2, Facts, <1>6 DEF AcquireBusy
    <3> QED BY <3>1, <3>2
  <2> QED BY <2>1, <2>2, <2>3
<1>7. CASE Retry(p)
  <2>1. TypeOK' BY Facts, <1>7, BootAssumption DEF Retry, TypeOK, Steps
  <2>2. Frame(p) BY Facts, <1>7, BootAssumption DEF Retry, Frame
  <2>3. Control(p)' BY Facts, <1>7, BootAssumption DEF Retry
  <2> QED BY <2>1, <2>2, <2>3
<1> QED BY <1>1, <1>2, <1>3, <1>4, <1>5, <1>6, <1>7

\* A failure, a signal, a stall or a kill is counted.
LEMMA Counted == ASSUME TypeOK, Fault PROVE faults' \in 0..MaxFaults
  BY BootAssumption DEF TypeOK, Fault

\* The transaction of Migrate, and a wait for it.
LEMMA MigrateSteps ==
    ASSUME IInv, NEW p \in Procs,
           \/ Begin(p) \/ WaitTimeout(p) \/ Apply(p) \/ Record(p)
           \/ Commit(p) \/ MigrateFails(p) \/ Rollback(p)
    PROVE  TypeOK' /\ Control(p)' /\ Frame(p)
<1> USE DEF At, Go, Keep, Quiet, file, bounds
<1> USE DEF Control, Configured, Connected, Migrating, Secured, Locking, Transaction,
      Database, Late, Swept, Ended
<1>1. CASE Begin(p)
  <2>1. TypeOK' BY Facts, <1>1, PrefixEnds DEF Begin, TypeOK, Steps
  <2>2. Frame(p) BY Facts, <1>1, PrefixEnds DEF Begin, Frame
  <2>3. Control(p)'
    <3>1. Configured(p)' /\ Connected(p)' /\ Secured(p)' BY Facts, <1>1 DEF Begin
    <3>2. Migrating(p)'
      <4>1. pc'[p] = "migrate" /\ lock' = p /\ view'[p] = schema' BY Facts, <1>1 DEF Begin
      <4>2. Len(schema') >= Len(schema') BY Facts, BootAssumption, <1>1 DEF Begin
      <4> QED BY <4>1, <4>2
    <3> QED BY <3>1, <3>2
  <2> QED BY <2>1, <2>2, <2>3
<1>2. CASE WaitTimeout(p)
  <2>1. TypeOK' BY Facts, <1>2 DEF WaitTimeout, TypeOK, Steps
  <2>2. Frame(p) BY Facts, <1>2 DEF WaitTimeout, Frame
  <2>3. Control(p)' BY Facts, <1>2 DEF WaitTimeout
  <2> QED BY <2>1, <2>2, <2>3
<1>3. CASE Apply(p)
  <2>1. TypeOK' BY Facts, <1>3, PrefixEnds DEF Apply, TypeOK, Steps
  <2>2. Frame(p) BY Facts, <1>3, PrefixEnds DEF Apply, Frame
  <2>3. Control(p)'
    <3>1. Configured(p)' /\ Connected(p)' /\ Secured(p)' BY Facts, <1>3 DEF Apply
    <3>2. Migrating(p)'
      <4>1. pc'[p] = IF Len(view[p]) = Migrations THEN "commit" ELSE "record"
        BY Facts, <1>3 DEF Apply
      <4>2. UNCHANGED <<view, schema, lock>> /\ lock = p BY Facts, <1>3 DEF Apply
      <4>3. IF Len(view[p]) = Migrations THEN view[p] = AllMigrations
                                         ELSE Len(view[p]) < Migrations
        BY Facts, BootAssumption
      <4>4. Len(view[p]) >= Len(schema) BY Facts, <1>3 DEF Apply
      <4> QED BY <4>1, <4>2, <4>3, <4>4
    <3> QED BY <3>1, <3>2
  <2> QED BY <2>1, <2>2, <2>3
<1>4. CASE Record(p)
  <2>1. TypeOK' BY Facts, <1>4, PrefixEnds DEF Record, TypeOK, Steps
  <2>2. Frame(p) BY Facts, <1>4, PrefixEnds DEF Record, Frame
  <2>3. Control(p)'
    <3>1. Len(view'[p]) >= Len(schema')
      <4>1. view'[p] = Append(view[p], Len(view[p]) + 1) /\ schema' = schema
        BY Facts, <1>4 DEF Record
      <4>2. view'[p] \in Seq(Nat) /\ Len(view'[p]) = Len(view[p]) + 1
        BY <4>1, Facts, PrefixEnds, <1>4
      <4> QED BY <4>1, <4>2, Facts, <1>4 DEF Record
    <3> QED BY Facts, <1>4, <3>1 DEF Record
  <2> QED BY <2>1, <2>2, <2>3
<1>5. CASE Commit(p)
  <2>1. TypeOK' BY Facts, <1>5, PrefixEnds DEF Commit, TypeOK, Steps
  <2>2. Frame(p) BY Facts, <1>5, PrefixEnds DEF Commit, Frame
  <2>3. Control(p)' BY Facts, <1>5, PrefixEnds DEF Commit
  <2> QED BY <2>1, <2>2, <2>3
<1>6. CASE MigrateFails(p)
  <2>0. faults' \in 0..MaxFaults BY Facts, <1>6, Counted DEF MigrateFails
  <2>1. TypeOK' BY <2>0, Facts, <1>6 DEF MigrateFails, TypeOK, Steps
  <2>2. Frame(p) BY Facts, <1>6 DEF MigrateFails, Frame
  <2>3. Control(p)' BY Facts, <1>6 DEF MigrateFails
  <2> QED BY <2>1, <2>2, <2>3
<1>7. CASE Rollback(p)
  <2>1. TypeOK' BY Facts, <1>7, PrefixEnds DEF Rollback, TypeOK, Steps
  <2>2. Frame(p) BY Facts, <1>7, PrefixEnds DEF Rollback, Frame
  <2>3. Control(p)' BY Facts, <1>7, PrefixEnds DEF Rollback
  <2> QED BY <2>1, <2>2, <2>3
<1> QED BY <1>1, <1>2, <1>3, <1>4, <1>5, <1>6, <1>7

\* Storage, bucket, sweep and discovery.
LEMMA LateSteps ==
    ASSUME IInv, NEW p \in Procs,
           \/ OpenStorage(p) \/ BucketExists(p) \/ MakeBucket(p) \/ SweepQuery(p)
           \/ SweepSettle(p) \/ Discover(p) \/ DiscoverFails(p)
    PROVE  TypeOK' /\ Control(p)' /\ Frame(p)
<1> USE DEF At, Go, Keep, Quiet, file, bounds
<1> USE DEF Control, Configured, Connected, Migrating, Secured, Locking, Transaction,
      Database, Late, Swept, Ended
<1>1. CASE OpenStorage(p)
  <2>1. TypeOK' BY Facts, <1>1 DEF OpenStorage, AfterBucket, TypeOK, Steps
  <2>2. Frame(p) BY Facts, <1>1 DEF OpenStorage, AfterBucket, Frame
  <2>3. Control(p)' BY Facts, <1>1 DEF OpenStorage, AfterBucket
  <2> QED BY <2>1, <2>2, <2>3
<1>2. CASE BucketExists(p)
  <2>1. TypeOK' BY Facts, <1>2 DEF BucketExists, AfterBucket, TypeOK, Steps
  <2>2. Frame(p) BY Facts, <1>2 DEF BucketExists, AfterBucket, Frame
  <2>3. Control(p)' BY Facts, <1>2 DEF BucketExists, AfterBucket
  <2> QED BY <2>1, <2>2, <2>3
<1>3. CASE MakeBucket(p)
  <2>1. TypeOK' BY Facts, <1>3 DEF MakeBucket, AfterBucket, TypeOK, Steps
  <2>2. Frame(p) BY Facts, <1>3 DEF MakeBucket, AfterBucket, Frame
  <2>3. Control(p)' BY Facts, <1>3 DEF MakeBucket, AfterBucket
  <2> QED BY <2>1, <2>2, <2>3
<1>4. CASE SweepQuery(p)
  <2>1. TypeOK' BY Facts, <1>4 DEF SweepQuery, AfterSweep, TypeOK, Steps
  <2>2. Frame(p) BY Facts, <1>4 DEF SweepQuery, AfterSweep, Frame
  <2>3. Control(p)' BY Facts, <1>4 DEF SweepQuery, AfterSweep
  <2> QED BY <2>1, <2>2, <2>3
<1>5. CASE SweepSettle(p)
  <2>1. TypeOK' BY Facts, <1>5 DEF SweepSettle, AfterSweep, TypeOK, Steps
  <2>2. Frame(p) BY Facts, <1>5 DEF SweepSettle, AfterSweep, Frame
  <2>3. Control(p)' BY Facts, <1>5 DEF SweepSettle, AfterSweep
  <2> QED BY <2>1, <2>2, <2>3
<1>6. CASE Discover(p)
  <2>1. TypeOK' BY Facts, <1>6 DEF Discover, TypeOK, Steps
  <2>2. Frame(p) BY Facts, <1>6 DEF Discover, Frame
  <2>3. Control(p)' BY Facts, <1>6 DEF Discover
  <2> QED BY <2>1, <2>2, <2>3
<1>7. CASE DiscoverFails(p)
  <2>0. faults' \in 0..MaxFaults BY Facts, <1>7, Counted DEF DiscoverFails
  <2>1. TypeOK' BY <2>0, Facts, <1>7 DEF DiscoverFails, TypeOK, Steps
  <2>2. Frame(p) BY Facts, <1>7 DEF DiscoverFails, Frame
  <2>3. Control(p)' BY Facts, <1>7 DEF DiscoverFails
  <2> QED BY <2>1, <2>2, <2>3
<1> QED BY <1>1, <1>2, <1>3, <1>4, <1>5, <1>6, <1>7

\* Failures, signals, stalls, kills and the next boot.
LEMMA EndSteps ==
    ASSUME IInv, NEW p \in Procs,
           \/ StepFails(p) \/ Signal(p) \/ Cancelled(p) \/ Shutdown(p)
           \/ Stall(p) \/ Wake(p) \/ Kill(p) \/ Restart(p)
    PROVE  TypeOK' /\ Control(p)' /\ Frame(p)
<1> USE DEF At, Go, Keep, Quiet, file, bounds
<1> USE DEF Control, Configured, Connected, Migrating, Secured, Locking, Transaction,
      Database, Late, Swept, Ended
<1>1. CASE StepFails(p)
  <2>0. faults' \in 0..MaxFaults BY Facts, <1>1, Counted DEF StepFails
  <2>1. TypeOK' BY <2>0, Facts, <1>1 DEF StepFails, TypeOK, Steps
  <2>2. Frame(p) BY Facts, <1>1 DEF StepFails, Frame
  <2>3. Control(p)' BY Facts, <1>1 DEF StepFails
  <2> QED BY <2>1, <2>2, <2>3
<1>2. CASE Signal(p)
  <2>0. faults' \in 0..MaxFaults BY Facts, <1>2, Counted DEF Signal
  <2>1. TypeOK' BY <2>0, Facts, <1>2 DEF Signal, TypeOK, Steps
  <2>2. Frame(p) BY Facts, <1>2 DEF Signal, Frame
  <2>3. Control(p)' BY Facts, <1>2 DEF Signal
  <2> QED BY <2>1, <2>2, <2>3
<1>3. CASE Cancelled(p)
  <2>1. TypeOK' BY Facts, <1>3 DEF Cancelled, Cancellable, TypeOK, Steps
  <2>2. Frame(p) BY Facts, <1>3 DEF Cancelled, Cancellable, Frame
  <2>3. Control(p)'
    <3>1. pc'[p] \in {"rollback", "failed"} /\ UNCHANGED <<env, conn, schema, bucket>>
      BY Facts, <1>3 DEF Cancelled
    <3>2. Configured(p)' /\ Connected(p)' /\ Secured(p)'
      BY Facts, <3>1, <1>3 DEF Cancelled, Cancellable
    <3>3. Migrating(p)' BY Facts, <3>1, <1>3 DEF Cancelled, Cancellable
    <3> QED BY <3>2, <3>3
  <2> QED BY <2>1, <2>2, <2>3
<1>4. CASE Shutdown(p)
  <2>1. TypeOK' BY Facts, <1>4 DEF Shutdown, TypeOK, Steps
  <2>2. Frame(p) BY Facts, <1>4 DEF Shutdown, Frame
  <2>3. Control(p)' BY Facts, <1>4 DEF Shutdown
  <2> QED BY <2>1, <2>2, <2>3
<1>5. CASE Stall(p)
  <2>0. faults' \in 0..MaxFaults BY Facts, <1>5, Counted DEF Stall
  <2>1. TypeOK' BY <2>0, Facts, <1>5 DEF Stall, TypeOK, Steps
  <2>2. Frame(p) BY Facts, <1>5 DEF Stall, Frame
  <2>3. Control(p)' BY Facts, <1>5 DEF Stall
  <2> QED BY <2>1, <2>2, <2>3
<1>6. CASE Wake(p)
  <2>1. TypeOK' BY Facts, <1>6 DEF Wake, TypeOK, Steps
  <2>2. Frame(p) BY Facts, <1>6 DEF Wake, Frame
  <2>3. Control(p)' BY Facts, <1>6 DEF Wake
  <2> QED BY <2>1, <2>2, <2>3
<1>7. CASE Kill(p)
  <2>0. faults' \in 0..MaxFaults /\ intent' \in BOOLEAN
    <3>1. faults' \in 0..MaxFaults BY Facts, <1>7, Counted DEF Kill
    <3>2. intent' \in BOOLEAN BY Facts, <1>7 DEF Kill, TypeOK
    <3> QED BY <3>1, <3>2
  <2>1. TypeOK' BY <2>0, Facts, <1>7 DEF Kill, TypeOK, Steps
  <2>2. Frame(p) BY Facts, <1>7 DEF Kill, Frame
  <2>3. Control(p)' BY Facts, <1>7 DEF Kill
  <2> QED BY <2>1, <2>2, <2>3
<1>8. CASE Restart(p)
  <2>0. /\ view' \in [Procs -> Prefixes] /\ boots' \in [Procs -> 1..MaxBoots]
        /\ attempt' \in [Procs -> 0..(Tries - 1)]
    <3>1. view' \in [Procs -> Prefixes] BY Facts, <1>8, PrefixEnds DEF Restart, TypeOK
    <3>2. boots[p] + 1 \in 1..MaxBoots BY Facts, <1>8, BootAssumption DEF Restart, TypeOK
    <3>3. boots' \in [Procs -> 1..MaxBoots] BY Facts, <1>8, <3>2 DEF Restart, TypeOK
    <3>4. attempt' \in [Procs -> 0..(Tries - 1)]
      <4>1. 0 \in 0..(Tries - 1) BY BootAssumption
      <4> QED BY Facts, <1>8, <4>1 DEF Restart, TypeOK
    <3> QED BY <3>1, <3>3, <3>4
  <2>1. TypeOK' BY <2>0, Facts, <1>8 DEF Restart, TypeOK, Steps
  <2>2. Frame(p) BY Facts, <1>8, BootAssumption DEF Restart, Frame
  <2>3. Control(p)' BY Facts, <1>8, BootAssumption DEF Restart
  <2> QED BY <2>1, <2>2, <2>3
<1> QED BY <1>1, <1>2, <1>3, <1>4, <1>5, <1>6, <1>7, <1>8

LEMMA NextIInv == IInv /\ [Next]_vars => IInv'
<1> SUFFICES ASSUME IInv, [Next]_vars PROVE IInv' OBVIOUS
<1>1. CASE UNCHANGED vars
  BY <1>1 DEF vars, process, file, bounds, IInv, TypeOK, Control, Configured, Connected,
     Migrating, Secured, Booting
<1>2. CASE Next
  <2>1. PICK p \in Procs :
          \/ Progress(p)
          \/ MigrateFails(p) \/ DiscoverFails(p) \/ StepFails(p)
          \/ Signal(p) \/ Stall(p) \/ Wake(p) \/ Kill(p) \/ Restart(p)
    BY <1>2 DEF Next
  <2>2. TypeOK' /\ Control(p)' /\ Frame(p)
    BY <2>1, OpenSteps, MigrateSteps, LateSteps, EndSteps DEF Progress
  <2> QED BY <2>2, Inductive
<1> QED BY <1>1, <1>2

LEMMA Invariance == Spec => []IInv
  BY InitIInv, NextIInv, PTL DEF Spec

-----------------------------------------------------------------------------
(* The properties                                                          *)

\* Every variable keeps its type: Migrate never asks for a connection more often
\* than its bound (migrate.go:94-105), and schema_migrations and every
\* transaction's view of it are a prefix of the embedded migrations.
THEOREM TypeCorrect == Spec => []TypeOK
<1>1. IInv => TypeOK BY DEF IInv
<1> QED BY <1>1, Invariance, PTL

\* Whatever listens has what its planes need, whichever step failed, whoever
\* was killed and however the processes that share the file interleave
\* (the order of runAdminAll, main.go:115-204).
THEOREM Ready == Spec => []ListeningIsReady
<1>1. IInv => ListeningIsReady
  <2> SUFFICES ASSUME IInv, NEW p \in Procs, pc[p] = "listening", NEW e, e = env[p]
               PROVE  /\ HasAdmin(e) => (conn[p] /\ schema = AllMigrations /\ e.path)
                      /\ ~HasAdmin(e) => (~conn[p] /\ lock # p)
                      /\ e.driver = "s3compat" => (e.s3 /\ (HasAdmin(e) => bucket))
                      /\ (e.cmd = "server" /\ HasAdmin(e) /\ e.auth # "none")
                           => (e.token \/ flow[p])
                      /\ (e.cmd = "server" /\ HasAdmin(e) /\ e.auth = "none") => ~e.token
    BY DEF ListeningIsReady
  <2>1. Valid(e) /\ e \in Environments BY Facts DEF Control, Configured, Ended
  <2>2. /\ conn[p] <=> HasAdmin(e)
        /\ conn[p] => schema = AllMigrations
        /\ (conn[p] /\ e.driver = "s3compat") => bucket
        /\ (conn[p] /\ e.cmd = "server" /\ AuthOf(e) = "oidc") => flow[p]
        /\ lock # p
    BY Facts DEF Control, Connected, Secured, Migrating, Late, Locking, Transaction
  <2>3. HasAdmin(e) => e.path
    BY <2>1, Facts DEF HasAdmin, Valid, ModeOf
  <2>4. e.driver = "s3compat" => e.s3 BY <2>1 DEF Valid
  <2>5. (e.cmd = "server" /\ HasAdmin(e)) => CredentialsFit(e) /\ AuthOf(e) = e.auth
    BY <2>1 DEF HasAdmin, Valid, ModeOf, AuthOf
  <2>6. CredentialsFit(e) /\ AuthOf(e) = e.auth =>
          /\ e.auth # "none" => e.token \/ e.auth = "oidc"
          /\ e.auth = "none" => ~e.token
    BY <2>1 DEF CredentialsFit, AuthOf, Environments
  <2> QED BY <2>1, <2>2, <2>3, <2>4, <2>5, <2>6
<1> QED BY <1>1, Invariance, PTL

\* No process sees half of a migration run and none applies what another has
\* committed, for any number of them (Migrate's transaction, migrate.go:110-157).
THEOREM SchemaWhole == Spec => SchemaMovesWhole
<1>1. IInv /\ [Next]_vars =>
        [/\ schema' # schema => Len(schema) < Migrations /\ schema' = AllMigrations
         /\ \A p \in Procs : pc[p] = "record" => Len(view[p]) >= Len(schema)]_vars
  <2> SUFFICES ASSUME IInv, Next
               PROVE  /\ schema' # schema => Len(schema) < Migrations /\ schema' = AllMigrations
                      /\ \A p \in Procs : pc[p] = "record" => Len(view[p]) >= Len(schema)
    OBVIOUS
  <2>1. \A p \in Procs : pc[p] = "record" => Len(view[p]) >= Len(schema)
    BY DEF IInv, Control, Migrating
  <2>2. PICK p \in Procs :
          \/ Progress(p)
          \/ MigrateFails(p) \/ DiscoverFails(p) \/ StepFails(p)
          \/ Signal(p) \/ Stall(p) \/ Wake(p) \/ Kill(p) \/ Restart(p)
    BY DEF Next
  <2>3. Frame(p)
    BY <2>2, OpenSteps, MigrateSteps, LateSteps, EndSteps DEF Progress
  <2>4. schema' # schema => schema' = AllMigrations BY <2>3 DEF Frame
  <2>5. Len(schema) \in 0..Migrations /\ (Len(schema) = Migrations => schema = AllMigrations)
    BY Facts, PrefixEnds
  <2> QED BY <2>1, <2>4, <2>5, BootAssumption
<1> QED BY <1>1, Invariance, PTL DEF Spec, SchemaMovesWhole
=============================================================================
