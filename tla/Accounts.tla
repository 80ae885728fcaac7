------------------------------ MODULE Accounts ------------------------------
(***************************************************************************)
(* An agent's account: its wallet, its API keys and its public key         *)
(* (routes/register.py, tools/infrastructure.py, products/paywall,         *)
(* products/identity).  The keys are rows of one connection, whose         *)
(* transactions are everybody's (see SqliteConnection); a write of the     *)
(* identity with its commit is one step.  The id of a key is the request   *)
(* that made it.                                                           *)
(***************************************************************************)
EXTENDS Coroutines, SqliteConnection, FiniteSets

CONSTANTS Accounts, FirstAccount, FirstKey,   \* one exists, with its key
          Unbound

\* A key is rotated, or revoked, for the agent that it is of.
ASSUME AccountConstants == \A w \in Workloads : \A q, r \in Requests :
    /\ FirstKey \notin Requests
    /\ w[r].op \in {"register", "createKey", "rotate", "revokeKey", "bindKey"} =>
          w[r].account \in Accounts
    /\ w[r].op = "bindKey" => w[r].public # Unbound
    /\ w[r].op \in {"rotate", "revokeKey"} =>
          /\ w[r].target = FirstKey => w[r].account = FirstAccount
          /\ w[q].op \in {"register", "createKey", "rotate"} /\ w[r].target = q =>
                w[q].account = w[r].account

VARIABLES wallets,     \* agents that have a wallet
          paywall,     \* the connection: api_keys
          grace,       \* revoked keys that still authenticate
          publicKey,   \* agent_identities.public_key
          unlucky,     \* history: keys another one's rollback may have met
          rebound,     \* history: agents whose public key was bound twice at a time
          halfRotated  \* history: agents a rotation of whose key failed after its revocation

accountVars == <<wallets, paywall, grace, publicKey, unlucky, rebound, halfRotated>>

keyRows == paywall.data
LiveIn(rows, agent) == {k \in rows : k.agent = agent /\ ~k.revoked}
KeyOf(r) == [key |-> r, agent |-> job[r].account, revoked |-> FALSE]
Issues(r) == Op(r) \in {"register", "createKey", "rotate"}
RowOf(k) == {row \in keyRows : row.key = k}

\* POST /v1/register: the wallet first; who has one is registered already.
CreateWallet(r) ==
    /\ At(r, "register", "new")
    /\ IF job[r].account \in wallets
       THEN Go(r, "rejected") /\ UNCHANGED wallets
       ELSE wallets' = wallets \cup {job[r].account} /\ Go(r, "insertKey")
    /\ UNCHANGED <<paywall, grace, publicKey, unlucky, rebound, halfRotated>>

RequestKey(r) ==
    /\ At(r, "createKey", "new")
    /\ Go(r, "insertKey")
    /\ UNCHANGED accountVars

\* rotate_key: the key may be one that is revoked, in its 300 seconds of grace.
ValidateKey(r) ==
    /\ At(r, "rotate", "new")
    /\ Go(r, IF \E row \in RowOf(job[r].target) : ~row.revoked \/ row.key \in grace
             THEN "begin" ELSE "rejected")
    /\ UNCHANGED accountVars

BeginRotation(r) ==
    /\ At(r, "rotate", "begin")
    /\ IF CanBegin(paywall) THEN paywall' = Begin(paywall) /\ Go(r, "revoke")
                            ELSE UNCHANGED paywall /\ Go(r, "error")
    /\ UNCHANGED <<wallets, grace, publicKey, unlucky, rebound, halfRotated>>

\* The statement fails: the rotation rolls back, whatever is open by now.
Abort(r) ==
    /\ Go(r, "error")
    /\ IF Op(r) = "rotate"
       THEN /\ paywall' = Rollback(paywall)
            /\ unlucky' = unlucky \cup {q \in Requests \ {r} : pc[q] \in {"commitKey", "commitRevoke"}}
       ELSE UNCHANGED <<paywall, unlucky>>

\* _revoke_api_key, which looks the key up, and the rotation's revoke_key.
ListKeys(r) ==
    /\ At(r, "revokeKey", "new")
    /\ Go(r, IF \E row \in RowOf(job[r].target) : ~row.revoked THEN "revoke" ELSE "rejected")
    /\ UNCHANGED accountVars

RevokeKey(r) ==
    /\ Op(r) \in {"rotate", "revokeKey"} /\ pc[r] = "revoke"
    /\ \/ /\ paywall' = ExecuteImplicit(paywall,
                {IF row.key = job[r].target THEN [row EXCEPT !.revoked = TRUE] ELSE row : row \in keyRows})
          /\ grace' = IF \E row \in RowOf(job[r].target) : ~row.revoked
                      THEN grace \cup {job[r].target} ELSE grace
          /\ Go(r, "commitRevoke")
          /\ UNCHANGED unlucky
       \/ Abort(r) /\ UNCHANGED grace
    /\ UNCHANGED <<wallets, publicKey, rebound, halfRotated>>

\* revoke_key commits by itself, and ends the transaction of the rotation.
CommitRevoke(r) ==
    /\ Op(r) \in {"rotate", "revokeKey"} /\ pc[r] = "commitRevoke"
    /\ paywall' = Commit(paywall)
    /\ Go(r, IF Op(r) = "rotate" THEN "insertKey" ELSE "done")
    /\ UNCHANGED <<wallets, grace, publicKey, unlucky, rebound, halfRotated>>

\* create_key: store_key, with a commit of its own, and the hook that binds an
\* identity to the agent.
InsertKey(r) ==
    /\ Issues(r) /\ pc[r] = "insertKey"
    /\ \/ paywall' = ExecuteImplicit(paywall, keyRows \cup {KeyOf(r)}) /\ Go(r, "commitKey")
          /\ UNCHANGED <<unlucky, halfRotated>>
       \/ Abort(r) /\ halfRotated' = IF Op(r) = "rotate"
                                     THEN halfRotated \cup {job[r].account} ELSE halfRotated
    /\ UNCHANGED <<wallets, grace, publicKey, rebound>>

CommitKey(r) ==
    /\ Issues(r) /\ pc[r] = "commitKey"
    /\ paywall' = Commit(paywall)
    /\ Go(r, "lookupIdentity")
    /\ UNCHANGED <<wallets, grace, publicKey, unlucky, rebound, halfRotated>>

Binding(r) == {q \in Requests \ {r} : pc[q] = "storeIdentity" /\ job[q].account = job[r].account}
Rebind(r) == rebound' = IF Binding(r) # {} THEN rebound \cup {job[r].account} ELSE rebound
Bound(r) == IF Op(r) = "rotate" THEN "commitRotation" ELSE "done"

LookupIdentity(r) ==
    /\ Issues(r) /\ pc[r] = "lookupIdentity"
    /\ Go(r, IF publicKey[job[r].account] = Unbound THEN "storeIdentity" ELSE Bound(r))
    /\ Rebind(r)
    /\ UNCHANGED <<wallets, paywall, grace, publicKey, unlucky, halfRotated>>

\* register_agent with a public key of the agent's own, which replaces another.
OfferKey(r) ==
    /\ At(r, "bindKey", "new")
    /\ Go(r, IF publicKey[job[r].account] = job[r].public THEN "done" ELSE "storeIdentity")
    /\ Rebind(r)
    /\ UNCHANGED <<wallets, paywall, grace, publicKey, unlucky, halfRotated>>

\* INSERT OR REPLACE.
StoreIdentity(r) ==
    /\ Issues(r) \/ Op(r) = "bindKey"
    /\ pc[r] = "storeIdentity"
    /\ publicKey' = [publicKey EXCEPT ![job[r].account] =
                        IF Op(r) = "bindKey" THEN job[r].public ELSE r]
    /\ Go(r, IF Op(r) = "bindKey" THEN "done" ELSE Bound(r))
    /\ UNCHANGED <<wallets, paywall, grace, unlucky, rebound, halfRotated>>

\* The commit that was to end the transaction ends whatever is open.
CommitRotation(r) ==
    /\ At(r, "rotate", "commitRotation")
    /\ paywall' = Commit(paywall)
    /\ Go(r, "done")
    /\ UNCHANGED <<wallets, grace, publicKey, unlucky, rebound, halfRotated>>

AccountStep(r) ==
    \/ CreateWallet(r) \/ RequestKey(r) \/ ValidateKey(r) \/ BeginRotation(r) \/ ListKeys(r)
    \/ RevokeKey(r) \/ CommitRevoke(r) \/ InsertKey(r) \/ CommitKey(r) \/ LookupIdentity(r)
    \/ OfferKey(r) \/ StoreIdentity(r) \/ CommitRotation(r)

GraceOver(k) == /\ k \in grace /\ grace' = grace \ {k}
                /\ UNCHANGED <<wallets, paywall, publicKey, unlucky, rebound, halfRotated>>

AccountCrash == paywall' = Crash(paywall)
                /\ UNCHANGED <<wallets, grace, publicKey, unlucky, rebound, halfRotated>>

AccountInit ==
    /\ wallets = {FirstAccount}
    /\ paywall = Connected({[key |-> FirstKey, agent |-> FirstAccount, revoked |-> FALSE]})
    /\ publicKey = [a \in Accounts |-> IF a = FirstAccount THEN FirstKey ELSE Unbound]
    /\ grace = {} /\ unlucky = {} /\ rebound = {} /\ halfRotated = {}

-----------------------------------------------------------------------------
\* A key that was handed out is in the file and authenticates, until it is
\* revoked or rotated, unless the rollback of somebody else's rotation came
\* between its INSERT and its commit.
HandedOut ==
    \A r \in Requests : Issues(r) /\ pc[r] = "done" =>
       \/ \E row \in paywall.saved : row.key = r /\ ~row.revoked
       \/ \E q \in Requests : /\ Op(q) \in {"rotate", "revokeKey"} /\ job[q].target = r
                              /\ pc[q] \notin {"new", "rejected", "begin"}
       \/ r \in unlucky

\* Who has a wallet has a key that is not revoked: unless its registration or a
\* rotation is under way or was cut short, or an INSERT failed after the
\* commit before it ("no window where the old key is revoked but the new one
\* doesn't exist yet" of _rotate_key), or an administrator revoked it.
Keyless(agent) == \E r \in Requests :
    /\ Op(r) \in {"register", "rotate", "revokeKey"} /\ job[r].account = agent
    /\ CASE Op(r) = "register" -> pc[r] \notin {"new", "rejected", "done"}
         [] Op(r) = "rotate" -> Running(r) \/ cut[r] # "never" \/ agent \in halfRotated
         [] OTHER -> pc[r] \notin {"new", "rejected"}
AlwaysKeyed ==
    \A a \in wallets : LiveIn(paywall.saved, a) # {} \/ Keyless(a) \/ unlucky # {}

\* The public key an agent has registered stays its public key, unless another
\* binding had looked before and stored after.
KeyPairKept ==
    \A r \in Requests : Op(r) = "bindKey" /\ pc[r] = "done" =>
       \/ publicKey[job[r].account] = job[r].public
       \/ job[r].account \in rebound
       \/ \E q \in Requests \ {r} : Op(q) = "bindKey" /\ job[q].account = job[r].account

AccountsUsable == HandedOut /\ AlwaysKeyed /\ KeyPairKept

-----------------------------------------------------------------------------
(***************************************************************************)
(* Organisations and their members (gateway/src/tools/identity.py): the    *)
(* gateway writes the tables itself, over the one connection of the        *)
(* identity database, whose transactions belong to whoever commits first   *)
(* (see SqliteConnection).                                                 *)
(***************************************************************************)

CONSTANTS Orgs, FirstOrg,      \* one exists at the start,
          Agents, Founder, NoAgent  \* and has one owner; no owner was named

\* The id of an organisation is made for it.
ASSUME OrgConstants == \A w \in Workloads : \A q, r \in Requests :
    w[q].op = "createOrg" =>
        w[q].org # FirstOrg /\ (w[r].op = "createOrg" /\ w[r].org = w[q].org => r = q)

VARIABLES identity,   \* the connection: orgs, org_memberships, agent_identities.org_id
          overtaken   \* history: removals during which others wrote memberships

orgVars == <<identity, overtaken>>

orgTables == identity.data
OwnersIn(tables, org) == {m.agent : m \in {x \in tables.members : x.org = org /\ x.role = "owner"}}
Membership(r) == {m \in orgTables.members : m.org = job[r].org /\ m.agent = job[r].agent}

\* The id is random: nobody asks for it who was not told.
Answered(r, op) == Op(r) = op /\ pc[r] = "done"
Known(org) == org = FirstOrg \/ \E q \in Requests : Answered(q, "createOrg") /\ job[q].org = org

\* INSERT OR IGNORE INTO org_memberships.
Joined(r, role) ==
    IF Membership(r) # {} THEN orgTables
    ELSE [orgTables EXCEPT !.members =
             @ \cup {[org |-> job[r].org, agent |-> job[r].agent, role |-> role]}]

\* Removals of others that have read and not yet deleted.
Deciding(r) == {q \in Requests \ {r} : /\ Op(q) = "removeMember" /\ pc[q] \in {"owners", "delete"}
                                       /\ job[q].org = job[r].org}

\* _create_org: two INSERTs and a commit.
InsertOrg(r) ==
    /\ At(r, "createOrg", "new")
    /\ identity' = ExecuteImplicit(identity, [orgTables EXCEPT !.orgs = @ \cup {job[r].org}])
    /\ Go(r, IF job[r].agent = NoAgent THEN "commit" ELSE "owner")
    /\ UNCHANGED overtaken

InsertOwner(r) ==
    /\ At(r, "createOrg", "owner")
    /\ identity' = ExecuteImplicit(identity, Joined(r, "owner"))
    /\ Go(r, "commit")
    /\ UNCHANGED overtaken

\* _add_agent_to_org: any role; a membership that is there stays as it is.
SetOrg(r) ==
    /\ At(r, "addMember", "new")
    /\ IF job[r].org \in orgTables.orgs /\ Known(job[r].org)
       THEN /\ identity' = ExecuteImplicit(identity,
                              [orgTables EXCEPT !.home[job[r].agent] = job[r].org])
            /\ Go(r, "member")
       ELSE Go(r, "rejected") /\ UNCHANGED identity
    /\ UNCHANGED overtaken

InsertMember(r) ==
    /\ At(r, "addMember", "member")
    /\ identity' = ExecuteImplicit(identity, Joined(r, job[r].role))
    /\ overtaken' = overtaken \cup Deciding(r)
    /\ Go(r, "commit")

\* _remove_agent_from_org: the role, the number of owners, the DELETE.
ReadRole(r) ==
    /\ At(r, "removeMember", "new")
    /\ Go(r, IF Membership(r) = {} \/ ~Known(job[r].org) THEN "rejected"
             ELSE IF \E m \in Membership(r) : m.role = "owner" THEN "owners" ELSE "delete")
    /\ UNCHANGED orgVars

\* Mutant: one owner is taken for enough.
CountAnyOwner(r) ==
    /\ At(r, "removeMember", "owners")
    /\ Go(r, IF Cardinality(OwnersIn(orgTables, job[r].org)) < 1 THEN "rejected" ELSE "delete")
    /\ UNCHANGED orgVars

CountOwners(r) ==
    /\ At(r, "removeMember", "owners")
    /\ Go(r, IF Cardinality(OwnersIn(orgTables, job[r].org)) <= 1 THEN "rejected" ELSE "delete")
    /\ UNCHANGED orgVars

\* The agent keeps its org_id, by which get_org lists the members.
DeleteMember(r) ==
    /\ At(r, "removeMember", "delete")
    /\ identity' = ExecuteImplicit(identity, [orgTables EXCEPT !.members = @ \ Membership(r)])
    /\ overtaken' = overtaken \cup Deciding(r)
    /\ Go(r, "commit")

CommitOrg(r) ==
    /\ Op(r) \in {"createOrg", "addMember", "removeMember"} /\ pc[r] = "commit"
    /\ identity' = Commit(identity)
    /\ Go(r, "done")
    /\ UNCHANGED overtaken

OrgStep(r) == \/ InsertOrg(r) \/ InsertOwner(r) \/ SetOrg(r) \/ InsertMember(r)
              \/ ReadRole(r) \/ CountOwners(r) \/ DeleteMember(r) \/ CommitOrg(r)

OrgCrash == identity' = Crash(identity) /\ UNCHANGED overtaken

OrgInit ==
    /\ identity = Connected([orgs |-> {FirstOrg},
                             members |-> {[org |-> FirstOrg, agent |-> Founder, role |-> "owner"]},
                             home |-> [a \in Agents |-> "none"]])
    /\ overtaken = {}

-----------------------------------------------------------------------------
\* The last owner of an organisation is not removed ("last-owner guard" of
\* _remove_agent_from_org): in the file as in what is read, every organisation
\* has an owner, unless none was named, its creation is under way or was cut
\* short, or a removal deleted while the memberships changed under it.  Who
\* was told that it was added or removed will not find otherwise after a crash.
Ownerless(org) == \E r \in Requests :
    /\ Op(r) = "createOrg" /\ job[r].org = org
    /\ job[r].agent = NoAgent \/ pc[r] # "done"
Contested(org) == \E r \in overtaken : job[r].org = org
SameMember(q, r) == job[q].org = job[r].org /\ job[q].agent = job[r].agent

AlwaysOwned ==
    /\ \A tables \in {identity.saved, identity.data} : \A org \in tables.orgs :
          OwnersIn(tables, org) # {} \/ Ownerless(org) \/ Contested(org)
    /\ \A r \in Requests :
          LET kept == \E m \in identity.saved.members : m.org = job[r].org /\ m.agent = job[r].agent
              undone(op) == \E q \in Requests : Op(q) = op /\ SameMember(q, r) /\ pc[q] # "new"
          IN /\ Answered(r, "addMember") => kept \/ undone("removeMember")
             /\ Answered(r, "removeMember") => ~kept \/ undone("addMember")
=============================================================================
