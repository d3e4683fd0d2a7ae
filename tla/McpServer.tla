------------------------------ MODULE McpServer -----------------------------
(***************************************************************************)
(* The remote MCP server (packages/chatgpt-mcp): an OAuth server whose     *)
(* proof of identity is a Self proof, the service behind its tools, and    *)
(* the encrypted file in which it keeps everybody's credential.            *)
(*                                                                         *)
(* A handler is a call that runs from await to await: what it has read is  *)
(* in its record, and other calls run in between.  The file is read whole  *)
(* and written whole, through one temporary name per process.              *)
(*                                                                         *)
(* The ids of clients and the PKCE exchange are left out: whoever has a    *)
(* code is the client that may redeem it.                                  *)
(***************************************************************************)
EXTENDS SelfBridge, Sequences

CONSTANTS OAuthRequest,   \* authorization requests, whose ids are also the
                          \* temporary user ids (oauth.ts:87)
          Question, Call,
          MaxCodes,       \* bound: codes minted
          None

VARIABLES
  auth,      \* auth[o]: an authorization request
  codes,     \* codes, by the order of their minting
  tokens,    \* bearer tokens that have not expired: a user each
  provider,  \* requests at the bridge that SelfIdentityProvider remembers
  users,     \* the store's file, decrypted
  temporary, \* the file it is replaced by, if there is one
  calls,     \* the handlers at work
  votes      \* the broker: live answers, by the human and the question

oauthVars == <<auth, codes, tokens>>
mcpVars == <<bridgeVars, oauthVars, provider, users, temporary, calls, votes>>

UserId == OAuthRequest \cup Human
NoAuth == [status |-> "none", link |-> None, subject |-> None, ended |-> FALSE]

Init ==
  /\ BridgeInit
  /\ auth = [o \in OAuthRequest |-> NoAuth]
  /\ codes = <<>> /\ tokens = {}
  /\ provider = {}
  /\ users = [u \in UserId |-> None] /\ temporary = None
  /\ calls = [c \in Call |-> None]
  /\ votes = {}

-----------------------------------------------------------------------------
(* Calls.                                                                  *)

Arrive(c, op, user, arg, at) ==
  /\ calls[c] = None
  /\ calls' = [calls EXCEPT ![c] =
       [op |-> op, user |-> user, arg |-> arg, at |-> at,
        record |-> None, subject |-> None, edits |-> <<>>, all |-> users]]

Return(c) == calls' = [calls EXCEPT ![c] = None]

At(c, at) == calls[c] # None /\ calls[c].at = at

\* The call goes on to the edits of the store it has left to make.
Store(c, record, subject, edits) ==
  calls' = [calls EXCEPT ![c] = [@ EXCEPT !.at = "read", !.record = record,
                                          !.subject = subject, !.edits = edits]]

\* What ends a status call without a code: the page goes on waiting, or, for
\* an error other than three that are expected, the client gets server_error.
Throw(c, expected) ==
  /\ calls[c] # None
  /\ Return(c)
  /\ auth' = IF calls[c].op = "status" /\ ~expected
             THEN [auth EXCEPT ![calls[c].user].ended = TRUE] ELSE auth
  /\ UNCHANGED <<codes, tokens>>

-----------------------------------------------------------------------------
(* The OAuth server, up to the service.                                    *)

Authorize(o) ==
  /\ auth[o].status = "none"
  /\ auth' = [auth EXCEPT ![o].status = "consent"]
  /\ UNCHANGED <<bridgeVars, codes, tokens, provider, users, temporary, calls, votes>>

\* Both boxes are ticked; the status stays "consent" until the call returns.
Consent(o, c) ==
  /\ auth[o].status = "consent"
  /\ Arrive(c, "consent", o, None, "begin")
  /\ UNCHANGED <<bridgeVars, oauthVars, provider, users, temporary, votes>>

\* The waiting page reloads itself three seconds after each answer, and may be
\* open twice.  The service is asked to complete the identity of the request's
\* user, for the state that is the request's own id.
Status(o, c) ==
  /\ auth[o].status = "pending" /\ ~auth[o].ended
  /\ Arrive(c, "status", o, o, "complete")
  /\ UNCHANGED <<bridgeVars, oauthVars, provider, users, temporary, votes>>

\* /oauth/token: a code is good for one token.
Token(i) ==
  /\ ~codes[i].used
  /\ codes' = [codes EXCEPT ![i].used = TRUE]
  /\ tokens' = tokens \cup {codes[i].subject}
  /\ UNCHANGED <<bridgeVars, auth, provider, users, temporary, calls, votes>>

TokenExpires(u) ==
  /\ u \in tokens
  /\ tokens' = tokens \ {u}
  /\ UNCHANGED <<bridgeVars, auth, codes, provider, users, temporary, calls, votes>>

-----------------------------------------------------------------------------
(* The tools, for the user of the bearer token.                            *)

Tool(c, u) ==
  /\ u \in tokens
  /\ \/ Arrive(c, "chorum_authorize", u, None, "begin")
     \/ \E r \in Request : Arrive(c, "chorum_complete_identity", u, r, "complete")
     \/ \E q \in Question :
          Arrive(c, "chorum_vote", u, q, "authorized") \/ Arrive(c, "chorum_revoke", u, q, "authorized")
     \/ Arrive(c, "chorum_reset", u, None, "reset")
  /\ UNCHANGED <<bridgeVars, oauthVars, provider, users, temporary, votes>>

\* vote and revoke are for who has a credential in the store ...
Authorized(c) ==
  /\ At(c, "authorized")
  /\ LET mine == users[calls[c].user]
     IN  IF mine = None \/ mine.credential = None
         THEN Throw(c, TRUE)
         ELSE /\ calls' = [calls EXCEPT ![c].at = "sign", ![c].record = mine]
              /\ UNCHANGED oauthVars
  /\ UNCHANGED <<bridgeVars, provider, users, temporary, votes>>

\* ... with which the binary signs; the broker takes it or not.
Sign(c) ==
  /\ At(c, "sign")
  /\ LET vote == {<<calls[c].record.credential, calls[c].arg>>}
     IN  votes' \in {votes, IF calls[c].op = "chorum_vote" THEN votes \cup vote ELSE votes \ vote}
  /\ Return(c)
  /\ UNCHANGED <<bridgeVars, oauthVars, provider, users, temporary>>

\* reset: revokeAll reviews the answers in the ledger of a root that was made
\* for this one command, so it finds none to revoke.
Reset(c) ==
  /\ At(c, "reset")
  /\ \/ Store(c, None, None, <<"delete">>) /\ UNCHANGED oauthVars
     \/ Throw(c, TRUE)
  /\ UNCHANGED <<bridgeVars, provider, users, temporary, votes>>

-----------------------------------------------------------------------------
(* The service and the identity provider.                                  *)

\* authorize: a request at the bridge under a fresh key, remembered by the
\* provider, and then in the store as the state the user has to come back with.
BeginIdentity(c) ==
  /\ At(c, "begin")
  /\ Request \ minted # {}
  /\ LET r == CHOOSE x \in Request \ minted : TRUE
     IN  /\ PostRequest(r)
         /\ provider' = provider \cup {r}
         /\ Store(c, [identity |-> r, credential |-> None], None, <<"put">>)
  /\ UNCHANGED <<oauthVars, users, temporary, votes>>

\* The bridge does not answer (or its requests, in the model, are used up).
BeginFails(c) ==
  /\ At(c, "begin")
  /\ Throw(c, TRUE)
  /\ UNCHANGED <<bridgeVars, provider, users, temporary, votes>>

\* The guard of completeIdentity.
StateMatches(record, state) == record # None /\ record.identity = state

\* completeIdentity: the store is read first, then the provider's memory.
CompleteIdentity(c) ==
  /\ At(c, "complete")
  /\ IF StateMatches(users[calls[c].user], calls[c].arg) /\ users[calls[c].user].identity \in provider
     THEN /\ calls' = [calls EXCEPT ![c].at = "proof", ![c].record = users[calls[c].user]]
          /\ UNCHANGED oauthVars
     ELSE Throw(c, TRUE)
  /\ UNCHANGED <<bridgeVars, provider, users, temporary, votes>>

\* The bridge has all the proofs of a request, and they hold.
Proven(r) == r # None /\ Complete(r) /\ AllVerified(r)

\* SelfIdentityProvider.complete: the bridge is polled for the proof, for five
\* minutes, and the proof is registered at the broker.
ProofArrives(c) ==
  /\ At(c, "proof")
  /\ LET r == calls[c].record.identity IN
     /\ Proven(r)
     /\ provider' = provider \ {r}
     /\ \E h \in Identifiers(r) :
          Store(c, [identity |-> None, credential |-> h], h, <<"put", "move">>)
  /\ UNCHANGED <<bridgeVars, oauthVars, users, temporary, votes>>

\* The bridge does not know the request, the proof fails or does not come in
\* time ...
NoProof(c) ==
  /\ At(c, "proof")
  /\ ~Proven(calls[c].record.identity)
  /\ Throw(c, TRUE)
  /\ UNCHANGED <<bridgeVars, provider, users, temporary, votes>>

\* ... or the broker refuses it.
RegistrationRefused(c) ==
  /\ At(c, "proof")
  /\ Proven(calls[c].record.identity)
  /\ Throw(c, FALSE)
  /\ UNCHANGED <<bridgeVars, provider, users, temporary, votes>>

-----------------------------------------------------------------------------
(* The store.                                                              *)

\* put, delete and move, on the whole of the file as it was read.
Edited(all, call) ==
  CASE Head(call.edits) = "put"    -> [all EXCEPT ![call.user] = call.record]
    [] Head(call.edits) = "delete" -> [all EXCEPT ![call.user] = None]
    [] Head(call.edits) = "move"   ->
         IF call.user = call.subject THEN all
         ELSE [all EXCEPT ![call.subject] = all[call.user], ![call.user] = None]

ReadAll(c) ==
  /\ At(c, "read")
  /\ IF Head(calls[c].edits) = "move" /\ users[calls[c].user] = None
     THEN Throw(c, FALSE)
     ELSE /\ calls' = [calls EXCEPT ![c] = [@ EXCEPT !.at = "write", !.all = Edited(users, calls[c])]]
          /\ UNCHANGED oauthVars
  /\ UNCHANGED <<bridgeVars, provider, users, temporary, votes>>

\* writeAll: the temporary file, then its renaming, which another writer may
\* have done already, or do to what this one wrote.
WriteTemporary(c) ==
  /\ At(c, "write")
  /\ temporary' = calls[c].all
  /\ calls' = [calls EXCEPT ![c].at = "rename"]
  /\ UNCHANGED <<bridgeVars, oauthVars, provider, users, votes>>

\* The handler's own ending, after the last of its edits.
Finish(c) ==
  LET o == calls[c].user
  IN  CASE calls[c].op = "consent" ->
             /\ auth' = [auth EXCEPT ![o].status = "pending", ![o].link = calls[c].record.identity]
             /\ UNCHANGED <<codes, tokens>>
        [] calls[c].op = "status" ->
             /\ Len(codes) < MaxCodes
             /\ auth' = [auth EXCEPT ![o].status = "complete", ![o].subject = calls[c].subject]
             /\ codes' = Append(codes, [subject |-> calls[c].subject, used |-> FALSE])
             /\ UNCHANGED tokens
        [] OTHER -> UNCHANGED oauthVars

Rename(c) ==
  /\ At(c, "rename")
  /\ IF temporary = None
     THEN Throw(c, FALSE) /\ UNCHANGED <<users, temporary>>
     ELSE /\ users' = temporary
          /\ temporary' = None
          /\ IF Len(calls[c].edits) > 1
             THEN /\ calls' = [calls EXCEPT ![c] = [@ EXCEPT !.at = "read", !.edits = Tail(@)]]
                  /\ UNCHANGED oauthVars
             ELSE Return(c) /\ Finish(c)
  /\ UNCHANGED <<bridgeVars, provider, votes>>

\* The process restarts: the file stays, its temporary copy too.
ServerRestarts ==
  /\ auth' = [o \in OAuthRequest |-> [NoAuth EXCEPT !.status =
                                        IF auth[o].status = "none" THEN "none" ELSE "lost"]]
  /\ codes' = <<>> /\ tokens' = {} /\ provider' = {}
  /\ calls' = [c \in Call |-> None]
  /\ oauthVars' # oauthVars
  /\ UNCHANGED <<bridgeVars, users, temporary, votes>>

-----------------------------------------------------------------------------
CallStep(c) ==
  \/ BeginIdentity(c) \/ BeginFails(c)
  \/ CompleteIdentity(c) \/ ProofArrives(c) \/ NoProof(c) \/ RegistrationRefused(c)
  \/ Authorized(c) \/ Sign(c) \/ Reset(c)
  \/ ReadAll(c) \/ WriteTemporary(c) \/ Rename(c)

Next ==
  \/ \E o \in OAuthRequest : Authorize(o) \/ \E c \in Call : Consent(o, c) \/ Status(o, c)
  \/ \E c \in Call : CallStep(c) \/ \E u \in UserId : Tool(c, u)
  \/ \E i \in DOMAIN codes : Token(i)
  \/ \E u \in UserId : TokenExpires(u)
  \/ ServerRestarts
  \/ /\ BridgeStep \/ BridgeRestarts \/ \E h \in Human, r \in Request : Scan(h, r)
     /\ UNCHANGED <<oauthVars, provider, users, temporary, calls, votes>>

Spec == Init /\ [][Next]_mcpVars

\* The page keeps reloading and the calls go on.
FairSpec ==
  /\ Spec
  /\ \A o \in OAuthRequest : WF_mcpVars(\E c \in Call : Status(o, c))
  /\ \A c \in Call : WF_mcpVars(CallStep(c))

-----------------------------------------------------------------------------
\* "The browser waits for its verified callback, and /oauth/token exchanges
\* the PKCE-bound code" (chatgpt-mcp/README.md:10-12): a page that waits for a
\* proof gets its code, or an error, once the proof is in, if neither the
\* bridge nor this server forgets it.
ProofEndsAuthorization ==
  \A o \in OAuthRequest :
    (auth[o].status = "pending" /\ Proven(auth[o].link))
      ~> (auth[o].status \in {"complete", "lost"} \/ auth[o].ended \/ ~Proven(auth[o].link))
=============================================================================
