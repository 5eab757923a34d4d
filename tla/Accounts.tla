------------------------------ MODULE Accounts ------------------------------
(***************************************************************************)
(* The accounts of the server and their bearer tokens: registration with a *)
(* proof-of-work challenge or by a superadmin, the contact email, the      *)
(* tokens members and superadmins create, revocation, the removal of a     *)
(* member, and the secret of a notification producer (src/src/admission.ts,*)
(* pow-challenge.ts, idempotency.ts, identity/tokens.ts, identity/auth.ts, *)
(* identity/members.ts, identity/memberships.ts, postgres.ts): the         *)
(* operations that answer with a secret nobody can be told twice.          *)
(*                                                                         *)
(* A challenge is a signed blob the client keeps: the server remembers     *)
(* only those it consumed.  A row with an owner belongs to a transaction   *)
(* that has not committed.  A write that meets such a row waits for its    *)
(* owner to end; two changes of address can wait for each other, and the   *)
(* database then refuses one.                                              *)
(*                                                                         *)
(* All clients register from one network address, which is the scope of    *)
(* their keys: from another one, a retry would not be a replay.            *)
(***************************************************************************)
EXTENDS Naturals, FiniteSets

CONSTANTS
    Key,        \* client keys
    Challenge,  \* challenges issued
    Bound,      \* Bound[c]: the email an invited challenge is bound to, or NoEmail
    Email, NoEmail,
    Account,    \* identities the database may assign (a bound)
    Request,    \* requests being served at one time
    Mortal,     \* requests that may die, or lose their connection
    Nobody,     \* no owner, no account, no challenge, no key
    Cap,        \* policy.accessTokens.maxActivePerMember
    MaxMinted,  \* bound on the tokens superadmins mint for one member
    MaxKeys     \* bound on the keys used

ASSUME AccountAssumption ==
    /\ Bound \in [Challenge -> Email \cup {NoEmail}]
    /\ NoEmail \notin Email
    /\ Nobody \notin Request \cup Account \cup Challenge \cup Key
    /\ Mortal \subseteq Request
    /\ "yes" \notin Request \cup {Nobody}
    /\ Cap \in Nat \ {0} /\ MaxMinted \in Nat /\ MaxKeys \in Nat \ {0}

NoAccount == [state |-> "none", email |-> NoEmail, by |-> Nobody, owner |-> Nobody, next |-> NoEmail]
NoJob == [op |-> "none", for |-> Nobody, key |-> Nobody, challenge |-> Nobody,
          account |-> Nobody, email |-> NoEmail]

VARIABLES
    keys,       \* rows of idempotency_keys: [op, for, key], "for" the account in the scope of the key
    consumed,   \* consumed[c]: the row of consumed_account_registration_pow_challenges
                \* is committed ("yes"), absent (Nobody) or written by a transaction
    account,    \* members: "new" until its insert commits, "gone" once removed
    own,        \* own[a]: live tokens a registered with or created
    minted,     \* minted[a]: live tokens superadmins minted for a
    producer,   \* secrets the producer has had: the last two are accepted; its writer
    label, job

vars == <<keys, consumed, account, own, minted, producer, label, job>>
tokens == <<own, minted>>
members == <<consumed, account>>

-----------------------------------------------------------------------------
(* Reads and locks *)

Live(a) == account[a].state = "live"
InFlight(a) == account[a].owner # Nobody

\* A committed account has this address, as the others see it.
Registered(e) == \E a \in Account : Live(a) /\ account[a].email = e

\* An invited challenge is signed with the email it is for.
Binds(c, e) == Bound[c] \in {NoEmail, e}

\* members_email_unique: an account r is not writing has the address...
Taken(r, e) == \E a \in Account : Live(a) /\ account[a].owner # r /\ account[a].email = e

\* ...or another transaction gives or takes it, and r has to wait.
Contested(r, e) == \E a \in Account : account[a].owner \notin {r, Nobody}
                                      /\ e \in {account[a].email, account[a].next}

WaitsFor(r, q) == label[r] = "index"
                  /\ \E a \in Account : account[a].owner = q /\ q # r
                                        /\ job[r].email \in {account[a].email, account[a].next}

Deadlocked(r) == \E S \in SUBSET Request : r \in S /\ \A q \in S : \E p \in S : WaitsFor(q, p)

\* The advisory lock on the scoped key, held until the transaction ends.
Scope(r) == [op |-> job[r].op, for |-> job[r].for, key |-> job[r].key]
KeyFreeMutant(r, scope) == TRUE
KeyFree(r, scope) == \A q \in Request \ {r} : label[q] \in {"idle", "key"} \/ Scope(q) # scope

\* The row of consumed_account_registration_pow_challenges is not there.
UnusedMutant(c) == TRUE
Unused(c) == consumed[c] # "yes"

Count(a) == own[a] + minted[a]

-----------------------------------------------------------------------------
(* Transactions *)

Moves(r, to) == label' = [label EXCEPT ![r] = to] /\ UNCHANGED job

Ends(r) == /\ label' = [label EXCEPT ![r] = "idle"]
           /\ job' = [job EXCEPT ![r] = NoJob]

\* A read refuses the request, or its transaction rolls back: nothing it wrote stays.
Fails(r) ==
    /\ Ends(r)
    /\ consumed' = [c \in Challenge |-> IF consumed[c] = r THEN Nobody ELSE consumed[c]]
    /\ account' = [a \in Account |->
            IF account[a].owner # r THEN account[a]
            ELSE IF account[a].state = "new" THEN NoAccount
            ELSE [account[a] EXCEPT !.owner = Nobody, !.next = NoEmail]]
    /\ producer' = IF producer.owner = r THEN [producer EXCEPT !.owner = Nobody] ELSE producer
    /\ UNCHANGED <<keys, tokens>>

Abort(r) == r \in Mortal /\ label[r] # "idle" /\ Fails(r)

DeadlockVictim(r) == Deadlocked(r) /\ Fails(r)

\* A request enters with a key; members authenticate with a live token.  withIdempotency: a
\* key that is used answers from its row, and one that is being used makes the request wait.
Asks(r, op, a, k, c, e) ==
    LET scope == [op |-> op, for |-> a, key |-> k]
    IN  /\ label[r] = "idle"
        /\ op \in {"create", "email"} => Live(a) /\ Count(a) > 0
        /\ IF scope \in keys
           THEN UNCHANGED <<label, job>>
           ELSE /\ Cardinality(keys) < MaxKeys
                /\ label' = [label EXCEPT ![r] = IF KeyFree(r, scope) THEN op ELSE "key"]
                /\ job' = [job EXCEPT ![r] = [op |-> op, for |-> a, key |-> k, challenge |-> c,
                                              account |-> a, email |-> e]]
        /\ UNCHANGED <<keys, members, tokens, producer>>

TakeKey(r) ==
    /\ label[r] = "key" /\ KeyFree(r, Scope(r))
    /\ IF Scope(r) \in keys THEN Ends(r) ELSE Moves(r, job[r].op)
    /\ UNCHANGED <<keys, members, tokens, producer>>

-----------------------------------------------------------------------------
(* accounts.register *)

\* The challenge verifies, its binding matches, and the address is free.
Verify(r) ==
    /\ label[r] = "register"
    /\ Binds(job[r].challenge, job[r].email)
    /\ ~Registered(job[r].email)
    /\ Moves(r, "consume")
    /\ UNCHANGED <<keys, members, tokens, producer>>

\* One of these is not so, or the challenge has expired: that may be so at any time.
VerifyRefuses(r) ==
    /\ label[r] = "register"
    /\ Fails(r)

Consume(r) ==
    LET c == job[r].challenge IN
    /\ label[r] = "consume" /\ consumed[c] \notin Request
    /\ IF Unused(c)
       THEN /\ consumed' = [consumed EXCEPT ![c] = r]
            /\ Moves(r, "invited")
            /\ UNCHANGED <<keys, account, tokens, producer>>
       ELSE Fails(r)

\* loadInvitationForRegistration, when the challenge is bound to one: it may no longer be open.
LoadInvitation(r) ==
    /\ label[r] = "invited"
    /\ \/ Moves(r, "insert") /\ UNCHANGED <<keys, members, tokens, producer>>
       \/ Bound[job[r].challenge] # NoEmail /\ Fails(r)

NewMember(r) ==
    LET e == job[r].email IN
    /\ ~Contested(r, e)
    /\ IF Taken(r, e)
       THEN Fails(r)
       ELSE \E a \in Account :
              /\ account[a] = NoAccount
              /\ account' = [account EXCEPT ![a] = [state |-> "new", email |-> e, by |-> job[r].challenge,
                                                    owner |-> r, next |-> NoEmail]]
              /\ label' = [label EXCEPT ![r] = "commit"]
              /\ job' = [job EXCEPT ![r] = [@ EXCEPT !.account = a, !.email = NoEmail, !.challenge = Nobody]]
              /\ UNCHANGED <<keys, consumed, tokens, producer>>

\* The member, its first token and its welcome.
InsertMember(r) == label[r] = "insert" /\ NewMember(r)

\* superadmin.members.create: without a challenge.
CreateMemberDirect(r) == label[r] = "direct" /\ NewMember(r)

-----------------------------------------------------------------------------
(* accounts.updateContactEmail *)

\* The update locks the row of the member...
ClaimRow(r) ==
    LET a == job[r].account IN
    /\ label[r] = "email" /\ ~InFlight(a)
    /\ IF Live(a)
       THEN /\ account' = [account EXCEPT ![a].owner = r]
            /\ Moves(r, "index")
            /\ UNCHANGED <<keys, consumed, tokens, producer>>
       ELSE Fails(r)

\* ...then enters the new address in members_email_unique.
EnterEmail(r) ==
    /\ label[r] = "index" /\ ~Contested(r, job[r].email)
    /\ IF Taken(r, job[r].email)
       THEN Fails(r)
       ELSE /\ account' = [account EXCEPT ![job[r].account].next = job[r].email]
            /\ label' = [label EXCEPT ![r] = "commit"]
            /\ job' = [job EXCEPT ![r].email = NoEmail]
            /\ UNCHANGED <<keys, consumed, tokens, producer>>

-----------------------------------------------------------------------------
(* accessTokens.create and superadmin.accessTokens.create *)

CountTokens(r) ==
    /\ label[r] = "create"
    /\ IF Count(job[r].account) >= Cap
       THEN Fails(r)
       ELSE Moves(r, "token") /\ UNCHANGED <<keys, members, tokens, producer>>

\* A superadmin mints without a cap; for a member who is not there, the key is spent on nothing.
FindMember(r) ==
    /\ label[r] = "mint"
    /\ IF Live(job[r].account)
       THEN Moves(r, "token") /\ UNCHANGED <<keys, members, tokens, producer>>
       ELSE /\ keys' = keys \cup {Scope(r)}
            /\ Ends(r)
            /\ UNCHANGED <<members, tokens, producer>>

\* The token refers to the member.
InsertToken(r) ==
    /\ label[r] = "token"
    /\ IF Live(job[r].account)
       THEN Moves(r, "commit") /\ UNCHANGED <<keys, members, tokens, producer>>
       ELSE Fails(r)

-----------------------------------------------------------------------------
(* superadmin.notificationProducers.create and .rotateSecret *)

NoProducer == [version |-> 0, owner |-> Nobody]

\* Both write the row of the producer and wait for whoever is writing it.
InsertProducer(r) ==
    /\ label[r] = "producer" /\ producer.owner = Nobody
    /\ IF producer.version > 0
       THEN Fails(r)
       ELSE /\ producer' = [producer EXCEPT !.owner = r]
            /\ Moves(r, "commit")
            /\ UNCHANGED <<keys, members, tokens>>

\* The current secret becomes the previous one; with no such producer the key is spent on nothing.
RotateSecret(r) ==
    /\ label[r] = "rotate" /\ producer.owner = Nobody
    /\ IF producer.version > 0
       THEN /\ producer' = [producer EXCEPT !.owner = r]
            /\ Moves(r, "commit")
            /\ UNCHANGED <<keys, members, tokens>>
       ELSE /\ keys' = keys \cup {Scope(r)}
            /\ Ends(r)
            /\ UNCHANGED <<members, tokens, producer>>

\* authenticateProducer
Accepted == {v \in {producer.version - 1, producer.version} : v > 0}

-----------------------------------------------------------------------------
(* The key row goes in last; all the transaction wrote shows at once. *)

Commit(r) ==
    LET a == job[r].account IN
    /\ label[r] = "commit"
    /\ job[r].op = "mint" => minted[a] < MaxMinted
    /\ keys' = keys \cup {Scope(r)}
    /\ consumed' = [c \in Challenge |-> IF consumed[c] = r THEN "yes" ELSE consumed[c]]
    /\ account' = IF job[r].op \in {"register", "direct"}
                  THEN [account EXCEPT ![a].state = "live", ![a].owner = Nobody]
                  ELSE IF job[r].op = "email"
                  THEN [account EXCEPT ![a].email = account[a].next, ![a].next = NoEmail, ![a].owner = Nobody]
                  ELSE account
    /\ own' = IF job[r].op \in {"register", "direct", "create"} THEN [own EXCEPT ![a] = @ + 1] ELSE own
    /\ minted' = IF job[r].op = "mint" THEN [minted EXCEPT ![a] = @ + 1] ELSE minted
    /\ producer' = IF job[r].op \in {"producer", "rotate"}
                   THEN [version |-> producer.version + 1, owner |-> Nobody] ELSE producer
    /\ Ends(r)

-----------------------------------------------------------------------------
(* Single statements, and what time and others do *)

\* By the member who holds a token, or by a superadmin; a token that expires goes likewise.
Revoke(a) ==
    /\ \/ own[a] > 0 /\ own' = [own EXCEPT ![a] = @ - 1] /\ UNCHANGED minted
       \/ minted[a] > 0 /\ minted' = [minted EXCEPT ![a] = @ - 1] /\ UNCHANGED own
    /\ UNCHANGED <<keys, members, producer, label, job>>

\* removeMember waits for the writers of the row and of what refers to it, and then holds it.
RemoveMember(a) ==
    /\ Live(a) /\ ~InFlight(a)
    /\ \A r \in Request : label[r] = "commit" => job[r].account # a
    /\ account' = [account EXCEPT ![a].state = "gone", ![a].email = NoEmail]
    /\ own' = [own EXCEPT ![a] = 0]
    /\ minted' = [minted EXCEPT ![a] = 0]
    /\ UNCHANGED <<keys, consumed, producer, label, job>>

-----------------------------------------------------------------------------
Init ==
    /\ keys = {}
    /\ consumed = [c \in Challenge |-> Nobody]
    /\ account = [a \in Account |-> NoAccount]
    /\ own = [a \in Account |-> 0]
    /\ minted = [a \in Account |-> 0]
    /\ producer = NoProducer
    /\ label = [r \in Request |-> "idle"]
    /\ job = [r \in Request |-> NoJob]

Enters(r) ==
    \E k \in Key :
        \/ \E c \in Challenge, e \in Email : Asks(r, "register", Nobody, k, c, e)
        \/ \E a \in Account, e \in Email : Asks(r, "email", a, k, Nobody, e)
        \/ \E a \in Account, op \in {"create", "mint"} : Asks(r, op, a, k, Nobody, NoEmail)
        \/ \E e \in Email : Asks(r, "direct", Nobody, k, Nobody, e)
        \/ \E op \in {"producer", "rotate"} : Asks(r, op, Nobody, k, Nobody, NoEmail)

Serve(r) ==
    \/ TakeKey(r) \/ Verify(r) \/ VerifyRefuses(r) \/ Consume(r) \/ LoadInvitation(r) \/ InsertMember(r)
    \/ ClaimRow(r) \/ EnterEmail(r) \/ CountTokens(r) \/ FindMember(r) \/ InsertToken(r) \/ Commit(r)
    \/ CreateMemberDirect(r) \/ InsertProducer(r) \/ RotateSecret(r)
    \/ DeadlockVictim(r) \/ Abort(r)

Next ==
    \/ \E r \in Request : Enters(r) \/ Serve(r)
    \/ \E a \in Account : Revoke(a) \/ RemoveMember(a)

Spec == Init /\ [][Next]_vars

-----------------------------------------------------------------------------
(* Properties *)

\* Every row has the type of its columns; only writers own rows.
TypeOK ==
    /\ keys \subseteq [op : {"register", "email", "create", "mint", "direct", "producer", "rotate"}, for : Account \cup {Nobody}, key : Key]
    /\ consumed \in [Challenge -> Request \cup {Nobody, "yes"}]
    /\ account \in [Account -> [state : {"none", "new", "live", "gone"}, email : Email \cup {NoEmail},
                                by : Challenge \cup {Nobody}, owner : Request \cup {Nobody},
                                next : Email \cup {NoEmail}]]
    /\ own \in [Account -> Nat] /\ minted \in [Account -> 0..MaxMinted]
    /\ label \in [Request -> {"idle", "key", "register", "consume", "invited", "insert", "email", "index",
                              "create", "mint", "token", "direct", "producer", "rotate", "commit"}]
    /\ producer.version \in Nat /\ producer.owner \in Request \cup {Nobody}

\* A challenge makes one account, ever, and a consumed one has made it: neither a race for
\* the challenge, nor a rollback, nor the later removal of the member changes that.  Two
\* accounts never share an address, whoever registers and whoever moves (consumed marker,
\* its rollback and members_email_unique in registerAccount and updateContactEmail).
OneAccountEach ==
    /\ \A a, b \in Account : a # b /\ account[a].state # "none" =>
            /\ account[a].by = account[b].by => account[a].by = Nobody
            /\ Live(a) /\ Live(b) => account[a].email # account[b].email
    /\ \A c \in Challenge : consumed[c] = "yes" =>
            \E a \in Account : account[a].by = c /\ account[a].state \in {"live", "gone"}

\* A retry is answered from the key's row, even when the first attempt is still being
\* served: nothing reaches its commit with a key that is used or about to be, so that the
\* primary key of idempotency_keys never refuses an insert.  A key rotates a secret once: a
\* retry of a rotation does not push the secret in use out of the two accepted (withIdempotency).
RetryIsAnswered ==
    /\ \A r \in Request : label[r] = "commit" =>
         /\ Scope(r) \notin keys
         /\ \A q \in Request \ {r} : label[q] = "commit" => Scope(q) # Scope(r)
    /\ \A v \in Accepted : v <= Cardinality({k \in keys : k.op \in {"producer", "rotate"}})

\* A member's own tokens pass the cap only by as many as were counted together: the cap is
\* read without a lock, but never overrun by creations one after the other (createBearerToken).
CapNeedsOverlap ==
    \A a \in Account : own[a] <= Cap + Cardinality(Request) - 1
=============================================================================
