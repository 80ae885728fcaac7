------------------------------ MODULE Claims ------------------------------
(***************************************************************************)
(* Submitted metrics and what is said of them (products/identity/src/api.py*)
(* and storage.py): a submission commits to its values, is attested by the *)
(* platform and becomes claims, in a row and a commit each; attestations   *)
(* are revoked or expire; reputations and claim chains are computed from   *)
(* them.  A row and its commit are one step: on one connection rows become *)
(* durable in the order of their statements.  A signature is modelled by   *)
(* the submission that was signed, a hash by the pair that was hashed.     *)
(***************************************************************************)
EXTENDS Coroutines, Integers, FiniteSets, Sequences, Functions, TLC

CONSTANTS FirstSubmissions,     \* a sequence: attested before, for FirstSubmitter,
          FirstSubmitter,       \* each with a claim about FirstMetric
          FirstMetric,
          ClaimTime,            \* how long an attestation is valid
          MaxClaimTime,
          PageLimit,            \* rows of a read: 100 attestations, 100 commitments
          SearchLimit           \* and 50 claims

ASSUME ClaimConstants == PageLimit \in Nat \ {0} /\ SearchLimit \in Nat \ {0}

VARIABLES claimTime,
          rows,         \* the tables
          submission,   \* locals of submit_metrics
          reading,      \* what the other methods have read
          stamps,       \* history: submissions in the order of their time stamps
          underway,     \* history: submissions without an attestation yet, at each reading
          acknowledged  \* history: who had been answered when a request began to read

claimVars == <<claimTime, rows, submission, reading, stamps, underway, acknowledged>>

Metrics(r) == IF r \in Requests THEN job[r].metrics ELSE <<FirstMetric>>
Submitter(r) == IF r \in Requests THEN job[r].agent ELSE FirstSubmitter
Insert(table, row) == rows' = [rows EXCEPT ![table] = Append(@, row)]
\* The rows of an attestation, with its id.
Attested == {[id |-> i] @@ rows.attestations[i] : i \in DOMAIN rows.attestations}
Valid(a) == a.until > claimTime /\ ~a.revoked
\* Who submitted, in the order of the time stamps.
Submitted == FirstSubmissions \o stamps
Precedes(s, x, y) == \E i, j \in DOMAIN s : i < j /\ s[i] = x /\ s[j] = y
\* get_attestations: the newest valid ones of an agent, up to the limit.
OfAgent(r) ==
    LET valid == {a \in Attested : a.agent = job[r].agent /\ Valid(a)} IN
    {a \in valid : Cardinality({b \in valid : Precedes(Submitted, a.by, b.by)}) < PageLimit}

-----------------------------------------------------------------------------
\* submit_metrics: for each metric a commitment and its blinding factor, then
\* the attestation of all of them, then for each metric a claim.
StampSubmission(r) ==
    /\ At(r, "attest", "new")
    /\ submission' = [submission EXCEPT ![r].at = claimTime]
    /\ stamps' = Append(stamps, r)
    /\ Go(r, "commitment")
    /\ UNCHANGED <<claimTime, rows, reading, underway, acknowledged>>

Rest == UNCHANGED <<claimTime, reading, stamps, underway, acknowledged>>
Nth(r) == submission[r].nth
Current(r) == [by |-> r, metric |-> Metrics(r)[Nth(r)].name]

\* The next metric, or, after the last one, the next table.
Advance(r, again, next) ==
    LET last == Nth(r) = Len(Metrics(r)) IN
    /\ Go(r, IF last THEN next ELSE again)
    /\ submission' = [submission EXCEPT ![r].nth = IF last THEN 1 ELSE @ + 1]

InsertCommitment(r) ==
    /\ At(r, "attest", "commitment")
    /\ Insert("commitments", Current(r))
    /\ Go(r, "secret")
    /\ UNCHANGED submission /\ Rest

InsertSecret(r) ==
    /\ At(r, "attest", "secret")
    /\ Insert("secrets", Current(r))
    /\ Advance(r, "commitment", "attestation")
    /\ Rest

Claim(r, id) ==
    [by |-> r, agent |-> job[r].agent, metric |-> Metrics(r)[Nth(r)].name,
     value |-> Metrics(r)[Nth(r)].value, until |-> submission[r].at + ClaimTime, attestation |-> id]

InsertAttestation(r) ==
    /\ At(r, "attest", "attestation")
    /\ Insert("attestations", [by |-> r, agent |-> job[r].agent, revoked |-> FALSE,
                               until |-> submission[r].at + ClaimTime])
    /\ submission' = [submission EXCEPT ![r].id = Len(rows.attestations) + 1]
    /\ Go(r, "claim")
    /\ Rest

InsertClaim(r) ==
    /\ At(r, "attest", "claim")
    /\ Insert("claims", Claim(r, submission[r].id))
    /\ Advance(r, "claim", "done")
    /\ Rest

\* revoke_attestation, of the library.
RevokeAttestation(r) ==
    /\ At(r, "revokeAttestation", "new")
    /\ LET mine == {a.id : a \in {x \in Attested : x.by = job[r].target /\ ~x.revoked}} IN
       /\ rows' = [rows EXCEPT !.attestations =
             [i \in DOMAIN @ |-> IF i \in mine THEN [@[i] EXCEPT !.revoked = TRUE] ELSE @[i]]]
       /\ Go(r, IF mine = {} THEN "rejected" ELSE "done")
    /\ UNCHANGED submission /\ Rest

-----------------------------------------------------------------------------
\* The readers.
AnsweredRequests == {q \in Requests : pc[q] = "done"}
Unattested == {q \in Range(stamps) : ~\E a \in Attested : a.by = q}
Observe(r, found) ==
    /\ reading' = [reading EXCEPT ![r].found = found, ![r].at = claimTime]
    /\ underway' = [underway EXCEPT ![r] = Unattested]
    /\ acknowledged' = [acknowledged EXCEPT ![r] = AnsweredRequests]
    /\ UNCHANGED <<claimTime, submission, stamps>>

\* get_verified_claims.
ListClaims(r) ==
    /\ At(r, "listClaims", "new")
    /\ Observe(r, {c \in Range(rows.claims) : c.agent = job[r].agent /\ c.until > claimTime
                                          /\ ~rows.attestations[c.attestation].revoked})
    /\ Go(r, "done")
    /\ UNCHANGED rows

\* The largest bounds of a set, as many as the limit allows.
Largest(match) ==
    {page \in SUBSET match :
        /\ Cardinality(page) <= SearchLimit
        /\ page = match \/ Cardinality(page) = SearchLimit
        /\ \A b \in page, c \in match \ page : b.value >= c.value}

\* search_agents_by_metrics: the largest bounds first, one claim for each agent
\* among those that the limit let through; whether their attestation was
\* revoked is not asked.
SearchClaims(r) ==
    /\ At(r, "searchClaims", "new")
    /\ \E page \in Largest({c \in Range(rows.claims) :
                 c.metric = job[r].metric /\ c.until > claimTime /\ c.value >= job[r].least}) :
       \E found \in SUBSET page :
          /\ \A c \in page : \E b \in found : b.agent = c.agent /\ b.value >= c.value
          /\ \A b, c \in found : b.agent = c.agent => b = c
          /\ reading' = [reading EXCEPT ![r] =
                 [found |-> found, at |-> claimTime, volume |-> Cardinality(page)]]
    /\ underway' = [underway EXCEPT ![r] = Unattested]
    /\ acknowledged' = [acknowledged EXCEPT ![r] = AnsweredRequests]
    /\ Go(r, "done")
    /\ UNCHANGED <<claimTime, rows, submission, stamps>>

\* reveal_commitment, with the blinding factor that the submission was
\* answered with.
RevealCommitment(r) ==
    /\ At(r, "reveal", "new") /\ pc[job[r].target] \in Terminal
    /\ Observe(r, {s \in Range(rows.secrets) : s.by = job[r].target})
    /\ Go(r, IF reading'[r].found = {} THEN "rejected" ELSE "done")
    /\ UNCHANGED rows

\* compute_reputation: the attestations, then the commitments.
ReadAttestations(r) ==
    /\ At(r, "reputation", "new")
    /\ Observe(r, OfAgent(r))
    /\ Go(r, "commitments")
    /\ UNCHANGED rows

Lesser(m, n) == IF m <= n THEN m ELSE n
ReadCommitments(r) ==
    /\ At(r, "reputation", "commitments")
    /\ reading' = [reading EXCEPT ![r].volume =
          Lesser(PageLimit, Cardinality({i \in DOMAIN rows.commitments :
                                Submitter(rows.commitments[i].by) = job[r].agent}))]
    /\ Go(r, "reputation")
    /\ UNCHANGED <<rows, submission, claimTime, stamps, underway, acknowledged>>

InsertReputation(r) ==
    /\ At(r, "reputation", "reputation")
    /\ Insert("reputations", [attested |-> reading[r].found, volume |-> reading[r].volume])
    /\ Go(r, "done")
    /\ UNCHANGED submission /\ Rest

\* build_claim_chain: the attestations it reads, in the order of their stamps.  A client
\* builds a chain, and later another one.
ReadLeaves(r) ==
    /\ At(r, "chains", "new") \/ At(r, "chains", "again")
    /\ IF pc[r] = "new" THEN Observe(r, OfAgent(r))
       ELSE /\ reading' = [reading EXCEPT ![r].found = OfAgent(r), ![r].at = claimTime]
            /\ UNCHANGED <<claimTime, submission, stamps, underway, acknowledged>>
    /\ Go(r, IF pc[r] = "new" THEN "first" ELSE "second")
    /\ UNCHANGED rows

InOrder(found) == SelectSeq(Submitted, LAMBDA by : \E a \in found : a.by = by)

InsertChain(r) ==
    /\ At(r, "chains", "first") \/ At(r, "chains", "second")
    /\ Insert("chains", [by |-> r, leaves |-> InOrder(reading[r].found)])
    /\ Go(r, IF pc[r] = "first" THEN "again" ELSE "done")
    /\ UNCHANGED submission /\ Rest

ClaimStep(r) ==
    \/ StampSubmission(r) \/ InsertCommitment(r) \/ InsertSecret(r) \/ InsertAttestation(r)
    \/ InsertClaim(r) \/ RevokeAttestation(r) \/ ListClaims(r) \/ SearchClaims(r)
    \/ RevealCommitment(r) \/ ReadAttestations(r) \/ ReadCommitments(r) \/ InsertReputation(r)
    \/ ReadLeaves(r) \/ InsertChain(r)

ClaimOps == {"attest", "revokeAttestation", "listClaims", "searchClaims", "reveal", "reputation", "chains"}

ClaimTick ==
    /\ claimTime < MaxClaimTime
    /\ \E r \in Requests : Op(r) \in ClaimOps /\ pc[r] \notin Terminal
    /\ claimTime' = claimTime + 1
    /\ UNCHANGED <<rows, submission, reading, stamps, underway, acknowledged>>

\* The first submissions' attestations do not expire.
ClaimInit ==
    /\ claimTime = 0
    /\ LET committed == [i \in DOMAIN FirstSubmissions |->
                            [by |-> FirstSubmissions[i], metric |-> FirstMetric.name]] IN
       rows =
          [commitments |-> committed, secrets |-> committed, chains |-> <<>>, reputations |-> <<>>,
           attestations |-> [i \in DOMAIN FirstSubmissions |->
               [by |-> FirstSubmissions[i], agent |-> FirstSubmitter, revoked |-> FALSE,
                until |-> MaxClaimTime + 1]],
           claims |-> [i \in DOMAIN FirstSubmissions |->
               [by |-> FirstSubmissions[i], agent |-> FirstSubmitter, metric |-> FirstMetric.name,
                value |-> FirstMetric.value, until |-> MaxClaimTime + 1, attestation |-> i]]]
    /\ submission = [r \in Requests |-> [at |-> 0, nth |-> 1, id |-> 0]]
    /\ reading = [r \in Requests |-> [found |-> {}, at |-> 0, volume |-> 0]]
    /\ stamps = <<>>
    /\ underway = [r \in Requests |-> {}] /\ acknowledged = [r \in Requests |-> {}]

-----------------------------------------------------------------------------
\* MerkleTree: the hash of a pair is the pair, a last one alone is paired with
\* itself.
Paired(level) == [i \in 1 .. ((Len(level) + 1) \div 2) |->
    <<level[2 * i - 1], level[IF 2 * i <= Len(level) THEN 2 * i ELSE 2 * i - 1]>>]

\* The levels of the tree, from the leaves up to the root and, as far as the
\* leaves are many, the root again.
Levels(leaves) ==
    LET level[n \in 0..Len(leaves)] ==
            IF n = 0 THEN leaves
            ELSE IF Len(level[n - 1]) <= 1 THEN level[n - 1] ELSE Paired(level[n - 1])
    IN level
Root(leaves) == Levels(leaves)[Len(leaves)]

\* The sibling at each level of the tree below the root.
Path(leaves, leaf) ==
    LET level == Levels(leaves)
        index[n \in 0..Len(leaves)] == IF n = 0 THEN leaf ELSE (index[n - 1] + 1) \div 2
        Sibling(n) ==
            LET i == index[n]  left == i % 2 = 0
                other == IF left THEN i - 1 ELSE IF i = Len(level[n]) THEN i ELSE i + 1
            IN [sibling |-> level[n][other], left |-> left]
    IN [h \in 1..Cardinality({n \in DOMAIN level : Len(level[n]) > 1}) |-> Sibling(h - 1)]

Proves(path, leaf, root) ==
    LET hash[n \in 0..Len(path)] ==
            IF n = 0 THEN leaf
            ELSE IF path[n].left THEN <<path[n].sibling, hash[n - 1]>>
                 ELSE <<hash[n - 1], path[n].sibling>>
    IN <<hash[Len(path)]>> = root

\* The proof for an index shows the leaf at it, and no other.
ProvesInclusion(leaves) == \A i, j \in DOMAIN leaves :
    Proves(Path(leaves, i), leaves[j], Root(leaves)) <=> i = j

-----------------------------------------------------------------------------
\* A claim rests on an attestation, and that on a commitment and a secret for
\* each metric; an answered submission is in the file, once and whole.
Has(table, by) == {x.metric : x \in {y \in Range(rows[table]) : y.by = by}}
Asked(r) == {Metrics(r)[i].name : i \in DOMAIN Metrics(r)}
ClaimsBacked ==
    /\ \A c \in Range(rows.claims) : \E a \in Attested :
          a.id = c.attestation /\ a.by = c.by /\ a.until = c.until
    /\ \A a \in Attested :
          Has("commitments", a.by) = Asked(a.by) /\ Has("secrets", a.by) = Asked(a.by)
SubmissionsKept == \A r \in Requests : At(r, "attest", "done") =>
    /\ Cardinality({a \in Attested : a.by = r}) = 1
    /\ Has("claims", r) = Asked(r)
    /\ Cardinality({i \in DOMAIN rows.claims : rows.claims[i].by = r}) = Cardinality(Asked(r))

\* Of two chains the later one has the leaves of the other, but for those that
\* expired or were revoked, or that are older than as many leaves as a read has
\* rows, in the same order; and what it puts before one of them had been
\* stamped, but not attested, when the first was read, or was too old for it.
TooOld(x, leaves) ==
    Len(leaves) = PageLimit /\ \A y \in Range(leaves) : Precedes(Submitted, x, y)
Chains(r) == SelectSeq(rows.chains, LAMBDA c : c.by = r)
Revoked(by) == \E a \in Attested : a.by = by /\ a.revoked
ChainsExtend == \A r \in Requests : At(r, "chains", "done") =>
    LET c == Chains(r)[1].leaves  d == Chains(r)[2].leaves IN
    /\ \A x \in Range(c) \ Range(d) :
          Revoked(x) \/ TooOld(x, d) \/ \E a \in Attested : a.by = x /\ a.until <= reading[r].at
    /\ \A x, y \in Range(d) : Precedes(d, x, y) /\ y \in Range(c) =>
          IF x \in Range(c) THEN Precedes(c, x, y) ELSE x \in underway[r] \/ TooOld(x, c)
ChainsProve == \A d \in Range(rows.chains) :
    /\ ProvesInclusion(d.leaves)
    /\ \A e \in Range(rows.chains) : Root(d.leaves) = Root(e.leaves) => d.leaves = e.leaves

\* What is told: claims that were acknowledged before, and none that had been
\* revoked; a search tells of an agent with such a claim unless claims at least
\* as large used up its limit; what was answered can be revealed; a reputation
\* counts at least the commitments of the attestations it counts, or as many
\* as a read has rows.
ClaimsTold == \A r \in Requests :
    /\ At(r, "listClaims", "done") =>
          /\ \A q \in acknowledged[r] : Op(q) = "revokeAttestation" =>
                ~\E c \in reading[r].found : c.by = job[q].target
          /\ \A q \in acknowledged[r] :
                /\ Op(q) = "attest" /\ job[q].agent = job[r].agent /\ ~Revoked(q)
                /\ submission[q].at + ClaimTime > reading[r].at
                => Asked(q) \subseteq {c.metric : c \in {x \in reading[r].found : x.by = q}}
    /\ At(r, "searchClaims", "done") =>
          \A q \in acknowledged[r] : \A i \in DOMAIN (IF Op(q) = "attest" THEN Metrics(q) ELSE <<>>) :
             /\ Metrics(q)[i].name = job[r].metric /\ Metrics(q)[i].value >= job[r].least
             /\ submission[q].at + ClaimTime > reading[r].at
             => \/ \E c \in reading[r].found : c.agent = job[q].agent /\ c.value >= Metrics(q)[i].value
                \/ /\ reading[r].volume = SearchLimit
                   /\ \A c \in reading[r].found : c.value >= Metrics(q)[i].value
    /\ At(r, "reveal", "rejected") => pc[job[r].target] # "done"
ReputationsBacked == \A p \in Range(rows.reputations) :
    p.volume >= Lesser(PageLimit, Cardinality(UNION {{a.by} \X Asked(a.by) : a \in p.attested}))

ClaimsHold == ClaimsBacked /\ SubmissionsKept /\ ChainsExtend /\ ChainsProve
              /\ ClaimsTold /\ ReputationsBacked
============================================================================
