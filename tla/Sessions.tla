------------------------------ MODULE Sessions ------------------------------
(***************************************************************************)
(* Refresh tokens, from login to logout.                                   *)
(*                                                                         *)
(* A refresh token is exchanged for a new one and is then blacklisted: the *)
(* tokens that descend from one login form a chain.  Verifying a token,    *)
(* blacklisting it and minting the next are statements of their own, and   *)
(* requests with one token may overtake each other in between.             *)
(***************************************************************************)
CONSTANTS
  Clients,  \* each has one request under way at most
  Tokens,   \* the refresh tokens that may be minted
  NoToken   \* no token, no request

\* An OutstandingToken, blacklisted or not; "root" is the first of its chain.
Token == [root : Tokens, spent : BOOLEAN]

TokenRequest == [op : {"track", "refresh", "mint", "logout"}, token : Tokens]

ASSUME SessionsAssumption == NoToken \notin Token \cup TokenRequest

VARIABLES
  token,      \* the refresh tokens
  tracked,    \* those whose login has a UserDeviceSession
  pending,    \* the request of each client
  over,       \* history: chains whose owner was told to be logged out
  contested   \* history: chains of a token that was spent twice

sessionVars == <<token, tracked, pending, over, contested>>

SessionsInit ==
  /\ token = [t \in Tokens |-> NoToken]
  /\ tracked = {}
  /\ pending = [c \in Clients |-> NoToken]
  /\ over = {}
  /\ contested = {}

-----------------------------------------------------------------------------
Pending(c, op) == pending[c] # NoToken /\ pending[c].op = op

Good(t) == token[t] # NoToken /\ ~token[t].spent

Start(c, op, t) ==
  /\ pending[c] = NoToken
  /\ pending' = [pending EXCEPT ![c] = [op |-> op, token |-> t]]

Finish(c) == pending' = [pending EXCEPT ![c] = NoToken]

\* The next token of a chain, or the first of its own.
Mint(t, root) ==
  /\ token[t] = NoToken
  /\ token' = [token EXCEPT ![t] = [root |-> root, spent |-> FALSE]]

MutBlacklist(t) ==   \* mutant: BLACKLIST_AFTER_ROTATION is off
  /\ contested' = IF token[t].spent THEN contested \cup {token[t].root} ELSE contested
  /\ UNCHANGED token

\* blacklist: get_or_create, so no error if somebody else has been first.
Blacklist(t) ==
  /\ token' = [token EXCEPT ![t].spent = TRUE]
  /\ contested' = IF token[t].spent THEN contested \cup {token[t].root} ELSE contested

-----------------------------------------------------------------------------
\* The credentials are accepted: a token.
Login(c, t) ==
  /\ Start(c, "track", t)
  /\ Mint(t, t)
  /\ UNCHANGED <<tracked, over, contested>>

\* The UserDeviceSession, and the answer.
Track(c) ==
  /\ Pending(c, "track")
  /\ tracked' = tracked \cup {pending[c].token}
  /\ Finish(c)
  /\ UNCHANGED <<token, over, contested>>

\* The second factor is accepted, or a company is registered: a token, and no
\* session.
Issue(t) ==
  /\ Mint(t, t)
  /\ UNCHANGED <<tracked, pending, over, contested>>

\* A token is verified: it is not blacklisted.
Verify(c, op, t) ==
  /\ Good(t)
  /\ Start(c, op, t)
  /\ UNCHANGED <<token, tracked, over, contested>>

Rotate(c) ==
  /\ Pending(c, "refresh")
  /\ Blacklist(pending[c].token)
  /\ pending' = [pending EXCEPT ![c].op = "mint"]
  /\ UNCHANGED <<tracked, over>>

Refresh(c, t) ==
  /\ Pending(c, "mint")
  /\ Mint(t, token[pending[c].token].root)
  /\ Finish(c)
  /\ UNCHANGED <<tracked, over, contested>>

MutLogout(c) ==   \* mutant: the cookies are deleted, and the token is not revoked
  /\ Pending(c, "logout")
  /\ over' = over \cup {token[pending[c].token].root}
  /\ Finish(c)
  /\ UNCHANGED <<token, tracked, contested>>

Logout(c) ==
  /\ Pending(c, "logout")
  /\ Blacklist(pending[c].token)
  /\ over' = over \cup {token[pending[c].token].root}
  /\ Finish(c)
  /\ UNCHANGED <<tracked>>

\* The request's process ends between two statements.
Drop(c) ==
  /\ pending[c] # NoToken
  /\ Finish(c)
  /\ UNCHANGED <<token, tracked, over, contested>>

SessionsNext ==
  \/ \E c \in Clients, t \in Tokens :
       \/ Login(c, t) \/ Verify(c, "refresh", t) \/ Verify(c, "logout", t) \/ Refresh(c, t)
  \/ \E c \in Clients : Track(c) \/ Rotate(c) \/ Logout(c) \/ Drop(c)
  \/ \E t \in Tokens : Issue(t)

SessionsSpec == SessionsInit /\ [][SessionsNext]_sessionVars

-----------------------------------------------------------------------------
\* Properties

SessionsTypeOK ==
  /\ token \in [Tokens -> Token \cup {NoToken}]
  /\ pending \in [Clients -> TokenRequest \cup {NoToken}]
  /\ tracked \subseteq Tokens
  /\ over \subseteq Tokens /\ contested \subseteq Tokens

Of(t, root) == token[t] # NoToken /\ token[t].root = root

\* What a chain goes on with: its live tokens, and those about to be minted.
Ends(root) ==
  ({"token"} \X {t \in Tokens : Of(t, root) /\ ~token[t].spent})
  \cup ({"request"} \X {c \in Clients : Pending(c, "mint") /\ Of(pending[c].token, root)})

\* A login is good for one refresh token at a time, unless two requests spent
\* one token at once: overlapping refreshes fork the chain.
OneTokenPerLogin ==
  \A root \in Tokens \ contested : \A a, b \in Ends(root) : a = b

\* An owner who was told to be logged out, with a token that was still good, has
\* no token left, unless a refresh that had verified it went on afterwards.
LogoutHolds ==
  \A root \in over \ contested : Ends(root) = {}
=============================================================================
