-------------------------------- MODULE Upgrades --------------------------------
(***************************************************************************)
(* A host on which the gateway is installed and upgraded: the deployment   *)
(* with its rollback (scripts/deploy.sh), the package's maintainer scripts *)
(* (package/a2a-gateway/DEBIAN), the migration of the databases            *)
(* (scripts/migrate_db.sh, products/shared/src/migrate.py), which may also *)
(* be started by hand, and the service that systemd keeps alive.  A        *)
(* request is one run of a script, or a row that a client has booked.  The *)
(* crash is one of the host.  No row is written by hand, and a release is  *)
(* what its migrations are.                                                *)
(***************************************************************************)
EXTENDS Coroutines, Sequences

CONSTANTS FirstRelease, NoRelease,
          Expects       \* release -> product -> version

VARIABLES
    installed,   \* the release whose files are in /opt/a2a
    enabled,     \* systemd starts the service after a boot
    service,     \* "stopped", "starting" (also: to be restarted), "stamping", "active"
    dbs,         \* the databases: version and rows
    shadow,      \* the shadow copies, one path for each product
    unlinked,    \* the files that the service still has open when they were replaced
    script,      \* what a run of a script knows
    late,        \* history: rows booked between a shadow copy and the restart after its swap
    behind,      \* history: rows booked while the release was ahead of the database
    unstamped,   \* history: databases that were left without the version they have
    broken,      \* history: deployments that failed without a working rollback
    collided     \* history: runs that another one overlapped

hostVars == <<installed, enabled, service, dbs, shadow, unlinked, script, late, behind,
              unstamped, broken, collided>>

\* The registry of the helper; only the storages of BaseStorage that have
\* migrations stamp and check a version: that is billing.
Managed == <<"billing", "paywall">>
Databases == {"billing", "paywall"}
Checked == {"billing"}
\* Migration 2 of both converts costs from REAL credits to atomic units.
Conversion == 2

ASSUME HostConstants ==
    /\ FirstRelease \in DOMAIN Expects /\ NoRelease \notin DOMAIN Expects
    /\ \A release \in DOMAIN Expects : Expects[release] \in [Databases -> Nat \ {0}]
    /\ \A w \in Workloads : \A r \in Requests :
          /\ w[r].op = "book" => w[r].product \in Databases /\ w[r].small \in BOOLEAN
          /\ w[r].op = "deploy" => w[r].release \in DOMAIN Expects

NoDb == [there |-> FALSE, version |-> 0, rows |-> {}]
Expected(p) == Expects[installed][p]
NoScript == [listed |-> NoRelease, todo |-> <<>>, failed |-> FALSE, stopped |-> FALSE, rolling |-> FALSE, backup |-> NoRelease]
Product(r) == Head(script[r].todo)
Deploying(r) == Op(r) = "deploy"
Scripted(r) == Op(r) \in {"deploy", "migrate"}
InScript(r) == Scripted(r) /\ pc[r] \in {"next", "shadow", "swap", "move"}
Fail(r) == script' = [script EXCEPT ![r].failed = TRUE, ![r].todo = Tail(@)]

\* What the running service reads and writes.
IsRunning == service \in {"stamping", "active"}
OpenFile(p) == IF unlinked[p].there THEN unlinked[p] ELSE dbs[p]
Store(p, db) == IF unlinked[p].there
                THEN unlinked' = [unlinked EXCEPT ![p] = db] /\ UNCHANGED dbs
                ELSE dbs' = [dbs EXCEPT ![p] = db] /\ UNCHANGED unlinked

-----------------------------------------------------------------------------
\* What a release books in a database: a REAL before the conversion.
BookRow(r) ==
    /\ At(r, "book", "new")
    /\ LET p == job[r].product
           row == [by |-> r, small |-> job[r].small, real |-> Expected(p) < Conversion, off |-> FALSE]
       IN IF service = "active"
          THEN /\ Store(p, [OpenFile(p) EXCEPT !.rows = @ \cup {row}])
               /\ late' = IF \/ unlinked[p].there
                             \/ \E q \in Requests : InScript(q) /\ pc[q] # "next" /\ Product(q) = p
                          THEN late \cup {r} ELSE late
               /\ behind' = IF OpenFile(p).version < Expected(p) THEN behind \cup {r} ELSE behind
               /\ Go(r, "done")
          ELSE Go(r, "error") /\ UNCHANGED <<dbs, unlinked, late, behind>>
    /\ UNCHANGED <<installed, enabled, service, shadow, script, unstamped, broken, collided>>

-----------------------------------------------------------------------------
\* The service: BaseStorage.connect compares the versions and refuses to start,
\* and systemd tries again; PaywallStorage.connect does not.
Agrees(p) == dbs[p].there => dbs[p].version = Expected(p)

ServiceStarts ==
    /\ service = "starting" /\ \A p \in Checked : Agrees(p)
    /\ dbs' = [p \in Databases |-> IF dbs[p].there THEN dbs[p] ELSE [NoDb EXCEPT !.there = TRUE]]
    /\ service' = IF \A p \in Checked : dbs[p].there THEN "active" ELSE "stamping"
    /\ UNCHANGED <<installed, enabled, shadow, unlinked, script, late, behind, unstamped, broken, collided>>

\* A fresh database gets one row for each migration, each its own commit.
StampVersion ==
    /\ service = "stamping"
    /\ \E p \in Checked :
          /\ OpenFile(p).version < Expected(p)
          /\ Store(p, [OpenFile(p) EXCEPT !.version = @ + 1])
    /\ service' = IF \A p \in Checked : OpenFile(p)'.version = Expected(p) THEN "active" ELSE service
    /\ UNCHANGED <<installed, enabled, shadow, script, late, behind, unstamped, broken, collided>>

-----------------------------------------------------------------------------
\* migrate_db.sh: each product in turn; one that is not there, or not behind,
\* is skipped.  The versions are those of the release that was installed at the
\* start of the script; the migrations are those of the files that are there.
NextProduct(r) ==
    /\ Scripted(r) /\ pc[r] = "next" /\ script[r].todo # <<>>
    /\ LET p == Product(r)
           skip == ~dbs[p].there \/ dbs[p].version >= Expects[script[r].listed][p]
       IN \/ /\ skip
             /\ script' = [script EXCEPT ![r].todo = Tail(@)]
             /\ UNCHANGED <<pc, shadow>>
          \/ /\ ~skip
             /\ shadow' = [shadow EXCEPT ![p] = dbs[p]]
             /\ Go(r, "shadow")
             /\ UNCHANGED script
          \/ /\ ~skip
             /\ shadow' = [shadow EXCEPT ![p] = NoDb]
             /\ Fail(r)
             /\ UNCHANGED pc
    /\ UNCHANGED <<installed, enabled, service, dbs, unlinked, late, behind, unstamped, broken, collided>>

\* run_migrations: those whose version is above the database's.  The conversion
\* takes what is REAL, and what looks as if it were not converted.
Converted(row) == IF row.real THEN [row EXCEPT !.real = FALSE] ELSE [row EXCEPT !.off = row.small]
Migrated(db, version) ==
    [db EXCEPT !.version = IF @ < version THEN version ELSE @,
               !.rows = IF db.version < Conversion /\ Conversion <= version
                        THEN {Converted(row) : row \in db.rows} ELSE @]

\* The migration and the validation of the copy; whatever fails takes it away.
MigrateShadow(r) ==
    /\ Scripted(r) /\ pc[r] = "shadow"
    /\ LET p == Product(r) IN
       \/ /\ shadow[p].there
          /\ shadow' = [shadow EXCEPT ![p] = Migrated(@, Expected(p))]
          /\ Go(r, "swap")
          /\ UNCHANGED script
       \/ /\ shadow' = [shadow EXCEPT ![p] = NoDb]
          /\ Fail(r)
          /\ Go(r, "next")
    /\ UNCHANGED <<installed, enabled, service, dbs, unlinked, late, behind, unstamped, broken, collided>>

\* Whatever ends the service may end it between two stamps.
Unfinished == IF service = "stamping" THEN Checked ELSE {}
Stopped(next) == /\ service' = next
                 /\ unstamped' = unstamped \cup Unfinished
                 /\ unlinked' = [p \in Databases |-> NoDb]

\* stop_service: one that is active, once in a script; between two attempts to
\* start, systemd says of it that it is not.
StopService(r) ==
    /\ Scripted(r) /\ pc[r] = "swap"
    /\ \/ /\ ~script[r].stopped /\ service # "stopped"
          /\ Stopped("stopped")
          /\ script' = [script EXCEPT ![r].stopped = TRUE]
       \/ /\ script[r].stopped \/ ~IsRunning
          /\ UNCHANGED <<service, unstamped, unlinked, script>>
    /\ Go(r, "move")
    /\ UNCHANGED <<installed, enabled, dbs, shadow, late, behind, broken, collided>>

\* mv; without its file it fails, and the script with it, at that line.  A
\* service that runs keeps the file it has.
MoveShadow(r) ==
    /\ Scripted(r) /\ pc[r] = "move"
    /\ LET p == Product(r) IN
       IF shadow[p].there
       THEN /\ dbs' = [dbs EXCEPT ![p] = shadow[p]]
            /\ unlinked' = IF IsRunning /\ dbs[p].there THEN [unlinked EXCEPT ![p] = OpenFile(p)]
                           ELSE unlinked
            /\ shadow' = [shadow EXCEPT ![p] = NoDb]
            /\ script' = [script EXCEPT ![r].todo = Tail(@)]
            /\ Go(r, "next")
       ELSE /\ script' = [script EXCEPT ![r].failed = TRUE, ![r].todo = <<>>, ![r].stopped = FALSE]
            /\ Go(r, "next")
            /\ UNCHANGED <<dbs, shadow, unlinked>>
    /\ UNCHANGED <<installed, enabled, service, late, behind, unstamped, broken, collided>>

\* systemctl start, of a service that the script has stopped.
Restarted(r) == service' = IF script[r].stopped /\ service = "stopped" THEN "starting" ELSE service

\* The end of the script, and what follows it: for one that was started by hand,
\* nothing; in postinst, systemctl restart, or the failure of the package.
EndMigration(r) ==
    /\ At(r, "migrate", "next") /\ script[r].todo = <<>>
    /\ Restarted(r)
    /\ Go(r, IF script[r].failed THEN "error" ELSE "done")
    /\ UNCHANGED <<installed, enabled, dbs, shadow, unlinked, script, late, behind, unstamped, broken, collided>>

\* What has no package to go back to, or is going back, is left as it is.
GiveUpOr(r, next) == IF script[r].backup = NoRelease \/ script[r].rolling THEN "error" ELSE next

EndPostinst(r) ==
    /\ At(r, "deploy", "next") /\ script[r].todo = <<>>
    /\ IF script[r].failed
       THEN /\ Restarted(r)
            /\ broken' = IF GiveUpOr(r, "rollback") = "error" THEN broken \cup {r} ELSE broken
            /\ Go(r, GiveUpOr(r, "rollback"))
            /\ UNCHANGED <<enabled, unlinked, unstamped>>
       ELSE /\ Stopped("starting")
            /\ enabled' = TRUE
            /\ Go(r, IF script[r].rolling THEN "error" ELSE "verify")
            /\ UNCHANGED broken
    /\ UNCHANGED <<installed, dbs, shadow, script, late, behind, collided>>

Meet == collided' = collided \cup {q \in Requests : InScript(q)}

\* By hand: /opt/a2a/scripts has the script when a release is there.
BeginMigration(r) ==
    /\ At(r, "migrate", "new")
    /\ IF installed = NoRelease THEN Go(r, "error") /\ UNCHANGED script
       ELSE /\ script' = [script EXCEPT ![r].todo = Managed, ![r].listed = installed]
            /\ Go(r, "next")
    /\ Meet
    /\ UNCHANGED <<installed, enabled, service, dbs, shadow, unlinked, late, behind, unstamped, broken>>

-----------------------------------------------------------------------------
\* deploy.sh: the package that is installed is kept, unless dpkg-repack fails.
BackUpPackage(r) ==
    /\ At(r, "deploy", "new")
    /\ \E kept \in {NoRelease, installed} : script' = [script EXCEPT ![r].backup = kept]
    /\ Go(r, "install")
    /\ UNCHANGED <<installed, enabled, service, dbs, shadow, unlinked, late, behind, unstamped, broken, collided>>

\* dpkg -i, one at a time: prerm stops the service, postinst migrates.
Install(r, release) ==
    /\ \A q \in Requests : ~(Deploying(q) /\ InScript(q))
    /\ installed' = release
    /\ Stopped("stopped")
    /\ Go(r, "next")
    /\ Meet
    /\ UNCHANGED <<enabled, dbs, shadow, late, behind, broken>>

InstallPackage(r) ==
    /\ At(r, "deploy", "install")
    /\ Install(r, job[r].release)
    /\ script' = [script EXCEPT ![r].todo = Managed, ![r].listed = job[r].release]

RollBack(r) ==
    /\ At(r, "deploy", "rollback")
    /\ Install(r, script[r].backup)
    /\ script' = [script EXCEPT ![r] = [NoScript EXCEPT
           !.todo = Managed, !.listed = script[r].backup, !.rolling = TRUE]]

\* Three seconds later: a service that is starting may count as active, or not.
VerifyService(r) ==
    /\ At(r, "deploy", "verify")
    /\ \/ service \in {"starting", "stamping", "active"} /\ Go(r, "done")
       \/ service \in {"starting", "stopped"} /\ Go(r, GiveUpOr(r, "rollback"))
    /\ UNCHANGED hostVars

HostStep(r) == \/ BookRow(r) \/ NextProduct(r) \/ MigrateShadow(r) \/ StopService(r)
               \/ MoveShadow(r) \/ EndMigration(r) \/ EndPostinst(r) \/ BeginMigration(r)
               \/ BackUpPackage(r) \/ InstallPackage(r) \/ RollBack(r) \/ VerifyService(r)
ServiceStep == ServiceStarts \/ StampVersion

\* The host goes down, with the scripts; systemd starts the service at boot.
\* Where there are neither scripts nor bookings the crash is the gateway's only.
Watched == \E r \in Requests : Scripted(r) \/ Op(r) = "book"
HostCrash ==
    /\ IF Watched THEN Stopped(IF enabled THEN "starting" ELSE "stopped")
                  ELSE UNCHANGED <<service, unstamped, unlinked>>
    /\ UNCHANGED <<installed, enabled, dbs, shadow, script, late, behind, broken, collided>>

\* A deployment of the first release finds a host without it; the others find
\* it at work, its databases migrated.
FreshHost == \E r \in Requests : Op(r) = "deploy" /\ job[r].release = FirstRelease

HostInit ==
    /\ installed = IF FreshHost THEN NoRelease ELSE FirstRelease
    /\ enabled = ~FreshHost
    /\ service = IF FreshHost THEN "stopped" ELSE "active"
    /\ dbs = [p \in Databases |-> IF FreshHost THEN NoDb
                 ELSE [there |-> TRUE, version |-> Expects[FirstRelease][p], rows |-> {}]]
    /\ shadow = [p \in Databases |-> NoDb] /\ unlinked = [p \in Databases |-> NoDb]
    /\ script = [r \in Requests |-> NoScript]
    /\ late = {} /\ behind = {} /\ unstamped = {} /\ broken = {} /\ collided = {}

-----------------------------------------------------------------------------
\* A row that was booked stays through every upgrade, unless it was booked
\* after a script that runs beside the service had copied the database, and
\* before the service has opened the copy; and it keeps its value, unless the
\* database was then behind the release that booked.
RowsKept == \A r \in Requests : Op(r) = "book" /\ pc[r] = "done" =>
    /\ r \in late \/ \E row \in dbs[job[r].product].rows : row.by = r
    /\ \A row \in dbs[job[r].product].rows : row.by = r /\ row.off => r \in behind

\* A service that is active finds the rows of a checked database in the unit
\* its release expects, whatever was deployed, rolled back or cut before, when
\* no two scripts overlapped.
UnitsAgree == service = "active" /\ collided = {} => \A p \in Checked :
    \A row \in OpenFile(p).rows : row.real <=> Expected(p) < Conversion

\* When every script has ended the service serves, or will: unless a rollback
\* has brought back a release that is older than a database, a deployment
\* failed without a rollback, two scripts overlapped, or the host went down meanwhile,
\* or the service did before the fresh database had its version.
ServiceReturns ==
    (\A r \in Requests : Scripted(r) => pc[r] \in Terminal /\ cut[r] = "never") =>
       \/ service = "active" \/ installed = NoRelease
       \/ service # "stopped" /\ \A p \in Checked : service = "stamping" \/ Agrees(p)
       \/ \E p \in Checked : dbs[p].version > Expected(p)
       \/ broken \cup collided # {} \/ unstamped \cap Checked # {}

UpgradesSafe == RowsKept /\ UnitsAgree /\ ServiceReturns
============================================================================
