------------------------------- MODULE Releases -------------------------------
(***************************************************************************)
(* A release: the engineer's scripts (scripts/release.sh, which bumps with *)
(* scripts/sync_versions.py, and scripts/publish.sh), git between clones   *)
(* and the origin, and the workflows they start and wait for               *)
(* (.github/workflows/release, deploy-production, publish and ci.yml).  A  *)
(* request is one run of a script, a pull request that is merged, or a     *)
(* deployment dispatched by hand, of main or of a release branch; on one   *)
(* clone there is one script at a time, and an interrupt ends it as a      *)
(* time-out ends a request.  A commit is its number in the log.            *)
(***************************************************************************)
EXTENDS Coroutines, Sequences, FiniteSetsExt

CONSTANTS Clones, Versions, FirstVersion,
          None    \* no commit, no version, no run

VARIABLES
    commits,     \* the log: past (with itself), release, markers api and skill
    clones,      \* "on", "main", branches, tags, markers in the working tree, "merging"
    origin,      \* its main, branches, tags
    runs,        \* the workflow runs, in the order of their start
    production,  \* the commit it runs
    ran,         \* history: the commits it ran
    known        \* what a run of a script knows: its commit, the run it waits for

ASSUME ReleaseConstants ==
    /\ None \notin Nat \cup Versions /\ FirstVersion \notin Versions \cup {None}
    /\ "main" \notin Versions
    /\ \A w \in Workloads : \A r \in Requests :
          /\ w[r].op \in {"release", "publish", "cleanUp"} =>
             /\ {"clone", "version"} \subseteq DOMAIN w[r]
             /\ w[r].clone \in Clones /\ w[r].version \in Versions
          /\ w[r].op = "dispatch" => w[r].ref \in Versions \cup {"main"}

releaseVars == <<commits, clones, origin, runs, production, ran, known>>

\* VERSION, _version.py, pyproject.toml and package.json move together; SKILL.md
\* is a marker of its own.
Markers(c) == [api |-> commits[c].api, skill |-> commits[c].skill]
Past(c) == commits[c].past
HeadOf(k) == IF clones[k].on = "main" THEN clones[k].main ELSE clones[k].branch[clones[k].on]
Dirty(k) == clones[k].merging \/ clones[k].tree # Markers(HeadOf(k))

Clone(r) == job[r].clone
Version(r) == job[r].version
Mode(r) == job[r].mode
Releasing(r) == Op(r) = "release"
Free(k) == \A q \in Requests : ~(Running(q) /\ "clone" \in DOMAIN job[q] /\ Clone(q) = k)

Commit(parents, release, api, skill) ==
    commits' = Append(commits, [past |-> UNION {Past(c) : c \in parents} \cup {Len(commits) + 1},
                                release |-> release, api |-> api, skill |-> skill])
New == Len(commits) + 1
Start(flow, ref, commit) ==
    runs' = Append(runs, [flow |-> flow, ref |-> ref, commit |-> commit, status |-> "unlisted"])

\* gh run list --limit 1: the newest one that is listed.
Listed(flow, ref) ==
    {i \in DOMAIN runs : runs[i].flow = flow /\ runs[i].ref = ref /\ runs[i].status # "unlisted"}

At2(r, place) == Releasing(r) /\ pc[r] = place
Ships(r) == Op(r) \in {"release", "publish"}
Set(r, field, value) == clones' = [clones EXCEPT ![Clone(r)][field] = value]
SetAt(r, field, v, value) == clones' = [clones EXCEPT ![Clone(r)][field][v] = value]

-----------------------------------------------------------------------------
\* The checks of the arguments and the clone, and git checkout -b at HEAD.
BeginRelease(r) ==
    /\ At2(r, "new") /\ Free(Clone(r))
    /\ LET k == Clone(r)
           v == Version(r) IN
       IF Dirty(k) \/ clones[k].tags[v] # None \/ clones[k].branch[v] # None
       THEN Go(r, "error") /\ UNCHANGED clones
       ELSE /\ clones' = [clones EXCEPT ![k].on = v, ![k].branch[v] = HeadOf(k)]
            /\ Go(r, "bump")
    /\ UNCHANGED <<commits, origin, runs, production, ran, known>>

\* sync_versions.py --set --write: all of its targets.
BumpVersions(r) ==
    /\ At2(r, "bump")
    /\ Set(r, "tree", [api |-> Version(r), skill |-> Version(r)])
    /\ Go(r, "commit")
    /\ UNCHANGED <<commits, origin, runs, production, ran, known>>

\* git add names the files one by one, SKILL.md not among them.
CommitRelease(r) ==
    /\ At2(r, "commit")
    /\ LET head == HeadOf(Clone(r)) IN Commit({head}, Version(r), Version(r), commits[head].skill)
    /\ SetAt(r, "branch", Version(r), New)
    /\ known' = [known EXCEPT ![r].sha = New]
    /\ Go(r, IF Mode(r) = "dry-run" THEN "done" ELSE "push")
    /\ UNCHANGED <<origin, runs, production, ran>>

\* A push that is not a fast-forward is refused.
PushBranch(r) ==
    /\ At2(r, "push")
    /\ LET v == Version(r)
           there == origin.branch[v] IN
       IF there = None \/ there \in Past(known[r].sha)
       THEN /\ origin' = [origin EXCEPT !.branch[v] = known[r].sha]
            /\ Start("Release", v, known[r].sha)
            /\ Go(r, IF Mode(r) = "skip-ci" THEN "deploy" ELSE "find Release")
       ELSE Go(r, "error") /\ UNCHANGED <<origin, runs>>
    /\ UNCHANGED <<commits, clones, production, ran, known>>

\* What a script waits for, and where it goes on.
Waiting == [Release |-> "deploy", Deploy |-> "tag", Publish |-> "done"]

Finding == [Release |-> "find Release", Deploy |-> "find Deploy", Publish |-> "find Publish"]
Awaiting == [Release |-> "await Release", Deploy |-> "await Deploy", Publish |-> "await Publish"]

FindRun(r) ==
    /\ Ships(r)
    /\ \E flow \in DOMAIN Waiting :
          /\ pc[r] = Finding[flow]
          /\ IF Listed(flow, Version(r)) = {}
             THEN Go(r, IF flow = "Publish" THEN "done" ELSE "error") /\ UNCHANGED known
             ELSE /\ known' = [known EXCEPT ![r].run = Max(Listed(flow, Version(r)))]
                  /\ Go(r, Awaiting[flow])
    /\ UNCHANGED <<commits, clones, origin, runs, production, ran>>

\* Until it is completed, or the script's patience ends.
AwaitRun(r) ==
    /\ Ships(r)
    /\ \E flow \in DOMAIN Waiting :
          /\ pc[r] = Awaiting[flow]
          /\ Go(r, IF runs[known[r].run].status = "success" THEN Waiting[flow] ELSE "error")
    /\ UNCHANGED releaseVars

\* gh workflow run: of what the ref is now.
There(ref) == IF ref = "main" THEN origin.main ELSE origin.branch[ref]
Dispatch(r, ref, next) ==
    IF There(ref) = None THEN Go(r, "error") /\ UNCHANGED runs
    ELSE Start("Deploy", ref, There(ref)) /\ Go(r, next)

TriggerDeploy(r) ==
    /\ At2(r, "deploy")
    /\ IF Mode(r) = "skip-deploy" THEN Go(r, "done") /\ UNCHANGED runs
       ELSE Dispatch(r, Version(r), "find Deploy")
    /\ UNCHANGED <<commits, clones, origin, production, ran, known>>

DispatchDeploy(r) ==
    /\ At(r, "dispatch", "new")
    /\ Dispatch(r, job[r].ref, "done")
    /\ UNCHANGED <<commits, clones, origin, production, ran, known>>

TagRelease(r) ==
    /\ At2(r, "tag")
    /\ IF Mode(r) = "skip-publish" THEN Go(r, "checkout") /\ UNCHANGED clones
       ELSE SetAt(r, "tags", Version(r), known[r].sha) /\ Go(r, "push tag")
    /\ UNCHANGED <<commits, origin, runs, production, ran, known>>

\* Of both scripts: a tag that is there is not replaced.
PushTag(r) ==
    /\ Ships(r) /\ pc[r] = "push tag"
    /\ LET v == Version(r) IN
       IF origin.tags[v] = None
       THEN /\ origin' = [origin EXCEPT !.tags[v] = clones[Clone(r)].tags[v]]
            /\ Start("Publish", v, clones[Clone(r)].tags[v])
            /\ Go(r, IF Releasing(r) THEN "checkout" ELSE "find Publish")
       ELSE Go(r, "error") /\ UNCHANGED <<origin, runs>>
    /\ UNCHANGED <<commits, clones, production, ran, known>>

\* The working tree goes from one commit to another, unless that would overwrite
\* a marker that was edited.
Moves(k, from, to) ==
    commits[from].skill = commits[to].skill \/ clones[k].tree.skill = commits[from].skill
Moved(k, from, to) ==
    [api |-> commits[to].api,
     skill |-> IF clones[k].tree.skill = commits[from].skill THEN commits[to].skill
               ELSE clones[k].tree.skill]

CheckoutMain(r) ==
    /\ At2(r, "checkout")
    /\ LET k == Clone(r)
           main == clones[k].main IN
       IF Moves(k, HeadOf(k), main)
       THEN /\ clones' = [clones EXCEPT ![k].on = "main", ![k].tree = Moved(k, HeadOf(k), main)]
            /\ Go(r, "pull")
       ELSE Go(r, "error") /\ UNCHANGED clones
    /\ UNCHANGED <<commits, origin, runs, production, ran, known>>

PullMain(r) ==
    /\ At2(r, "pull")
    /\ LET k == Clone(r)
           main == clones[k].main IN
       \/ /\ origin.main \in Past(main)
          /\ Go(r, "merge")
          /\ UNCHANGED clones
       \/ /\ main \in Past(origin.main) /\ main # origin.main /\ Moves(k, main, origin.main)
          /\ clones' = [clones EXCEPT ![k].main = origin.main, ![k].tree = Moved(k, main, origin.main)]
          /\ Go(r, "merge")
       \/ /\ origin.main \notin Past(main)
          /\ main \notin Past(origin.main) \/ ~Moves(k, main, origin.main)
          /\ Go(r, "error")
          /\ UNCHANGED clones
    /\ UNCHANGED <<commits, origin, runs, production, ran, known>>

\* merge --no-ff: two releases conflict, in CHANGELOG.md at least.
Conflict(main, sha) == \E c \in Past(main) \ Past(sha) : commits[c].release # None

MergeRelease(r) ==
    /\ At2(r, "merge")
    /\ LET k == Clone(r)
           main == clones[k].main IN
       IF Conflict(main, known[r].sha)
       THEN Set(r, "merging", TRUE) /\ Go(r, "error") /\ UNCHANGED commits
       ELSE /\ Commit({main, known[r].sha}, None, Version(r), commits[main].skill)
            /\ clones' = [clones EXCEPT ![k].main = New, ![k].tree.api = Version(r)]
            /\ Go(r, "push main")
    /\ UNCHANGED <<origin, runs, production, ran, known>>

PushMain(r) ==
    /\ At2(r, "push main")
    /\ LET main == clones[Clone(r)].main IN
       IF origin.main \in Past(main)
       THEN origin' = [origin EXCEPT !.main = main] /\ Go(r, "delete")
       ELSE Go(r, "error") /\ UNCHANGED origin
    /\ UNCHANGED <<commits, clones, runs, production, ran, known>>

DeleteBranch(r) ==
    /\ At2(r, "delete")
    /\ SetAt(r, "branch", Version(r), None)
    /\ Go(r, "delete remote")
    /\ UNCHANGED <<commits, origin, runs, production, ran, known>>

DeleteRemote(r) ==
    /\ Op(r) \in {"release", "cleanUp"} /\ pc[r] = "delete remote"
    /\ origin' = [origin EXCEPT !.branch[Version(r)] = None]
    /\ Go(r, IF Releasing(r) /\ origin.branch[Version(r)] = None THEN "error" ELSE "done")
    /\ UNCHANGED <<commits, clones, runs, production, ran, known>>

\* What the engineer does before another attempt at a version: the edits and the
\* merge go, and so does the branch, here and there.
CleanUp(r) ==
    /\ At(r, "cleanUp", "new") /\ Free(Clone(r))
    /\ LET k == Clone(r) IN
       clones' = [clones EXCEPT ![k].on = "main", ![k].merging = FALSE,
                  ![k].tree = Markers(clones[k].main), ![k].branch[Version(r)] = None]
    /\ Go(r, "delete remote")
    /\ UNCHANGED <<commits, origin, runs, production, ran, known>>

-----------------------------------------------------------------------------
\* publish.sh: the tag must be nowhere, and no local one may differ.  With --sha
\* it is told the commit: one of main, or (None) one that is refused.
BySha(r) == Op(r) = "publish" /\ Mode(r) = "sha"
FetchTags(r) ==
    /\ At(r, "publish", "new") /\ Free(Clone(r))
    /\ LET mine == clones[Clone(r)].tags
           merged == [v \in Versions |-> IF mine[v] = None THEN origin.tags[v] ELSE mine[v]]
           clash == \E v \in Versions : origin.tags[v] # None /\ merged[v] # origin.tags[v]
       IN IF clash THEN Go(r, "error") /\ UNCHANGED <<clones, known>>
          ELSE /\ Set(r, "tags", merged)
               /\ \E c \in {None} \cup (IF BySha(r) THEN Past(origin.main) ELSE {}) :
                     known' = [known EXCEPT ![r].sha = c]
               /\ Go(r, IF merged[Version(r)] = None THEN "locate" ELSE "error")
    /\ UNCHANGED <<commits, origin, runs, production, ran>>

\* The newest commit of that release on main, or the one it was told; its
\* markers, and the tag.
LocateRelease(r) ==
    /\ At(r, "publish", "locate")
    /\ LET found == {c \in Past(origin.main) :
                        IF BySha(r) THEN c = known[r].sha ELSE commits[c].release = Version(r)} IN
       IF found = {} \/ commits[Max(found)].api # Version(r)
       THEN Go(r, "error") /\ UNCHANGED <<clones, known>>
       ELSE /\ known' = [known EXCEPT ![r].sha = Max(found)]
            /\ SetAt(r, "tags", Version(r), Max(found))
            /\ Go(r, "push tag")
    /\ UNCHANGED <<commits, origin, runs, production, ran>>

\* ci.yml lets a pull request pass whose markers agree.
MergePullRequest(r) ==
    /\ At(r, "pullRequest", "new")
    /\ Commit({origin.main}, None, commits[origin.main].api, commits[origin.main].api)
    /\ origin' = [origin EXCEPT !.main = New]
    /\ Go(r, "done")
    /\ UNCHANGED <<clones, runs, production, ran, known>>

ReleaseStep(r) ==
    \/ BeginRelease(r) \/ BumpVersions(r) \/ CommitRelease(r) \/ PushBranch(r) \/ FindRun(r)
    \/ AwaitRun(r) \/ TriggerDeploy(r) \/ TagRelease(r) \/ PushTag(r) \/ CheckoutMain(r)
    \/ PullMain(r) \/ MergeRelease(r) \/ PushMain(r) \/ DeleteBranch(r) \/ DeleteRemote(r)
    \/ CleanUp(r) \/ FetchTags(r) \/ LocateRelease(r) \/ MergePullRequest(r) \/ DispatchDeploy(r)

-----------------------------------------------------------------------------
\* The workflows.  A run is listed some time after the push that started it.
EndRun(i, status) == runs' = [runs EXCEPT ![i].status = status]

ListRun(i) ==
    /\ runs[i].status = "unlisted"
    /\ EndRun(i, "queued")
    /\ UNCHANGED <<production, ran>>

\* Tests and staging of one commit; the checks and uploads of one tag.
RunChecks(i) ==
    /\ runs[i].flow \in {"Release", "Publish"} /\ runs[i].status = "queued"
    /\ \E status \in {"success", "failure"} : EndRun(i, status)
    /\ UNCHANGED <<production, ran>>

\* Mutant: how the run it waited for has ended is not looked at.
ReleaseGateOpen(i) ==
    /\ runs[i].flow = "Deploy" /\ runs[i].status = "queued"
    /\ EndRun(i, IF runs[i].ref = "main" \/ Listed("Release", runs[i].ref) # {}
                 THEN "deploying" ELSE "failure")
    /\ UNCHANGED <<production, ran>>

\* Deploy Production: the newest Release run of the branch must have passed; it
\* waits for its end, but not for ever.  For main there is no gate.
ReleaseGate(i) ==
    /\ runs[i].flow = "Deploy" /\ runs[i].status = "queued"
    /\ LET checks == Listed("Release", runs[i].ref) IN
       EndRun(i, IF \/ runs[i].ref = "main"
                    \/ checks # {} /\ runs[Max(checks)].status = "success"
                 THEN "deploying" ELSE "failure")
    /\ UNCHANGED <<production, ran>>

\* deploy.sh, and the smoke test, which fails when production has changed.
DeployCommit(i) ==
    /\ runs[i].status = "deploying"
    /\ \/ EndRun(i, "failure") /\ UNCHANGED <<production, ran>>
       \/ /\ production' = runs[i].commit
          /\ ran' = ran \cup {runs[i].commit}
          /\ \E status \in {"success", "failure"} : EndRun(i, status)

WorkflowStep ==
    /\ \E i \in DOMAIN runs : ListRun(i) \/ RunChecks(i) \/ ReleaseGate(i) \/ DeployCommit(i)
    /\ UNCHANGED <<commits, clones, origin, known>>

ReleaseInit ==
    /\ commits = <<[past |-> {1}, release |-> FirstVersion, api |-> FirstVersion, skill |-> FirstVersion]>>
    /\ clones = [k \in Clones |-> [on |-> "main", main |-> 1, merging |-> FALSE,
                   branch |-> [v \in Versions |-> None], tags |-> [v \in Versions |-> None],
                   tree |-> [api |-> FirstVersion, skill |-> FirstVersion]]]
    /\ origin = [main |-> 1, branch |-> [v \in Versions |-> None], tags |-> [v \in Versions |-> None]]
    /\ runs = <<>>
    /\ production = 1 /\ ran = {}
    /\ known = [r \in Requests |-> [sha |-> None, run |-> None]]

-----------------------------------------------------------------------------
Attempts(v) == {i \in DOMAIN runs : runs[i].flow = "Release" /\ runs[i].ref = v}
Passed(flow, c) == \E i \in DOMAIN runs :
    runs[i].flow = flow /\ runs[i].commit = c /\ runs[i].status = "success"

\* Production runs what has passed the Release pipeline of its version, whoever
\* skips the wait for it: a commit of a release its own; one of main, which may
\* be deployed without the gate, that of a release commit before it.  A tag
\* names what was deployed with success, or, where publish.sh was told another
\* commit, something that comes after it.  That is so for a version whose
\* branch was pushed once.
ReleasesTested == \A v \in Versions : Cardinality(Attempts(v)) = 1 =>
    LET OfVersion(c, flow) == \E d \in Past(c) : commits[d].release = v /\ Passed(flow, d)
        tag == origin.tags[v]
    IN /\ \A c \in ran : /\ commits[c].release = v => Passed("Release", c)
                        /\ commits[c].api = v => OfVersion(c, "Release")
       /\ tag # None => \/ commits[tag].release = v /\ Passed("Deploy", tag)
                        \/ /\ \E r \in Requests : BySha(r) /\ known[r].sha = tag
                           /\ commits[tag].api = v /\ OfVersion(tag, "Deploy")

Released(r) == Releasing(r) /\ pc[r] = "done" /\ Mode(r) \in {"full", "skip-ci"}

\* A version is released once; its commit is then on main, and stays there; and
\* a tagged one that its script did not bring there found that main had moved.
ReleasesReachMain ==
    /\ \A r, q \in Requests : Released(r) /\ Released(q) /\ r # q => Version(r) # Version(q)
    /\ \A r \in Requests : Releasing(r) /\ known[r].sha # None =>
          /\ pc[r] = "done" /\ Mode(r) \notin {"dry-run", "skip-deploy"} => known[r].sha \in Past(origin.main)
          /\ pc[r] = "error" /\ (\E v \in Versions : origin.tags[v] = known[r].sha) =>
                \/ known[r].sha \in Past(origin.main)
                \/ Past(origin.main) \ Past(known[r].sha) # {}

ReleasesRight == ReleasesTested /\ ReleasesReachMain
============================================================================
