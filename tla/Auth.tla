-------------------------------- MODULE Auth --------------------------------
(***************************************************************************)
(* Authentication: the account and the limit on attempts, and the tokens   *)
(* that live long.                                                         *)
(***************************************************************************)
EXTENDS Lists, FiniteSets, SequencesExt

-----------------------------------------------------------------------------
(***************************************************************************)
(* Getting in: the account made on the first run, the limit on attempts    *)
(* of an address, the two doors that take a password, and the session of   *)
(* the page that came in.                                                  *)
(***************************************************************************)

CONSTANTS Addresses,      \* where attempts come from
          Window,         \* WINDOW_MS
          Attempts,       \* MAX_ATTEMPTS
          LastTime,       \* the clock stops here
          MaxStarts       \* passwords the first run may print

ASSUME LoginAssumption ==
    /\ Window \in Nat \ {0} /\ Attempts \in Nat \ {0}
    /\ LastTime \in Nat /\ MaxStarts \in Nat

VARIABLES
    now,        \* Date.now()
    windows,    \* attempts of the guard, NoWindow for no entry
    letIn,      \* when the guard let an address through
    tries,      \* passwords being checked: from where, by which door, which one
    admin,      \* the password of the account in the database, 0 for no account
    printed,    \* the password the log showed last
    server,     \* "down", "making" (createUser hashes), "up"
    session     \* the page's token: "none", "live", "old"

loginVars == <<now, windows, letIn, tries, admin, printed, server, session>>

Passwords == 0 .. MaxStarts
Doors == {"login", "token"}
NoWindow == [count |-> 0, resetAt |-> 0]

LoginInit ==
    /\ now = 0 /\ admin = 0 /\ printed = 0 /\ server = "down" /\ session = "none"
    /\ windows = [a \in Addresses |-> NoWindow]
    /\ letIn = [a \in Addresses |-> <<>>]
    /\ tries = {}

-----------------------------------------------------------------------------
(* ensureDefaultAdmin: the password is drawn and printed first, the row is *)
(* saved when bcrypt has finished.                                         *)
(* Faulty variant: the early return comes after the printing.              *)
StartPrints ==
    /\ server = "down" /\ printed < MaxStarts
    /\ printed' = printed + 1
    /\ server' = IF admin = 0 THEN "making" ELSE "up"
    /\ UNCHANGED <<now, windows, letIn, tries, admin, session>>

Start ==
    /\ server = "down"
    /\ \/ /\ admin = 0 /\ printed < MaxStarts
          /\ printed' = printed + 1 /\ server' = "making"
       \/ admin # 0 /\ server' = "up" /\ UNCHANGED printed
    /\ UNCHANGED <<now, windows, letIn, tries, admin, session>>

AdminSaved ==
    /\ server = "making"
    /\ admin' = printed /\ server' = "up"
    /\ UNCHANGED <<now, windows, letIn, tries, printed, session>>

(* The process stops: only the guard's map and the requests in flight are  *)
(* in memory.                                                              *)
Stop ==
    /\ server # "down" /\ printed < MaxStarts
    /\ server' = "down" /\ tries' = {}
    /\ windows' = [a \in Addresses |-> NoWindow]
    /\ letIn' = [a \in Addresses |-> <<>>]
    /\ UNCHANGED <<now, admin, printed, session>>

LoginTick == now < LastTime /\ now' = now + 1
             /\ UNCHANGED <<windows, letIn, tries, admin, printed, server, session>>

-----------------------------------------------------------------------------
(* LoginRateLimitGuard: both doors share one window per address, opened by *)
(* the first attempt after the last one ran out.                           *)
Opens(a) == windows[a] = NoWindow \/ now > windows[a].resetAt
(* Faulty variant: off by one.                                             *)
MayTryOnceMore(a) == Opens(a) \/ windows[a].count <= Attempts
MayTry(a) == Opens(a) \/ windows[a].count < Attempts

(* Faulty variant: an attempt that opens a window is not counted in it.    *)
CountedFree(a) ==
    IF Opens(a) THEN [count |-> 0, resetAt |-> now + Window]
                ELSE [windows[a] EXCEPT !.count = @ + 1]

Counted(a) ==
    IF Opens(a) THEN [count |-> 1, resetAt |-> now + Window]
                ELSE [windows[a] EXCEPT !.count = @ + 1]

Attempt(a, door, p) ==
    /\ server = "up" /\ MayTry(a)
    /\ windows' = [windows EXCEPT ![a] = Counted(a)]
    /\ letIn' = [letIn EXCEPT ![a] = Append(@, now)]
    /\ tries' = tries \cup {[from |-> a, door |-> door, with |-> p]}
    /\ UNCHANGED <<now, admin, printed, server, session>>

(* validateUser and login: the door "login" refuses with 401, the door     *)
(* "token" answers 200 with an error in the body; the page uses "login".   *)
Checked(t) ==
    /\ tries' = tries \ {t}
    /\ session' = IF t.door = "login" /\ t.with = admin THEN "live" ELSE session
    /\ UNCHANGED <<now, windows, letIn, admin, printed, server>>

(* The token runs out after auth.jwt_expiry; logout forgets it.            *)
SessionEnds == session = "live" /\ session' \in {"old", "none"}
               /\ UNCHANGED <<now, windows, letIn, tries, admin, printed, server>>

LoginNext ==
    \/ Start \/ AdminSaved \/ Stop \/ LoginTick \/ SessionEnds
    \/ \E a \in Addresses, door \in Doors, p \in Passwords \ {0} : Attempt(a, door, p)
    \/ \E t \in tries : Checked(t)

LoginSpec == LoginInit /\ [][LoginNext]_loginVars

-----------------------------------------------------------------------------
(* The variables have the shape the code gives them.                       *)
LoginTypeOK ==
    /\ now \in 0 .. LastTime
    /\ \A a \in Addresses : windows[a].count \in 0 .. Attempts
    /\ admin \in Passwords /\ printed \in Passwords
    /\ server \in {"down", "making", "up"} /\ session \in {"none", "live", "old"}

(* However an address spaces its attempts over the fixed windows, no span  *)
(* as long as a window has more than twice the limit of them let through.  *)
LimiterBounds ==
    \A a \in Addresses, t \in 0 .. LastTime :
        Cardinality({n \in DOMAIN letIn[a] : letIn[a][n] \in t .. t + Window}) <= 2 * Attempts

(* The password the log shows last is the one of the account, though the   *)
(* process stops between printing it and saving it.                        *)
PrintedPasswordWorks == server = "up" => admin # 0 /\ admin = printed

-----------------------------------------------------------------------------
(***************************************************************************)
(* Long-lived access tokens: the table, the check of a token a device      *)
(* presents, and the two sections of the settings page that make tokens,   *)
(* of which one lists and revokes them.                                    *)
(***************************************************************************)

CONSTANTS MaxTokens,      \* tokens ever made
          MaxTokenAsks,   \* requests of the page
          MaxTokenFaults  \* requests that fail, sessions that end

VARIABLES
    rows,       \* the table: id -> whether the token ends: "never", "later", "past"
    revoked,    \* ids that were deleted
    touching,   \* tokens accepted whose last_used_at is still to be written
    tokensPage,       \* "closed", "open", "broken" (the list is not an array)
    list,       \* tokens, the ids the list shows
    once,       \* newToken, shown until it is dismissed; 0 for none
    busy,       \* creating and revoking (0 for none)
    qr,         \* panelToken (0 for none), loading and show
    asked,      \* the page's requests
    signed,     \* the page's session is accepted
    tokFaults, tokAstray    \* faults so far; the list is known to be wrong

tokVars == <<rows, revoked, touching, tokensPage, list, once, busy, qr, asked, signed,
             tokFaults, tokAstray>>

Ids == 1 .. MaxTokens
Issued == DOMAIN rows \cup revoked
NextId == Cardinality(Issued) + 1
NothingAsked == [creating |-> FALSE, revoking |-> 0]
NoQr == [token |-> 0, loading |-> FALSE, shown |-> FALSE]
Past == [op |-> "none", id |-> 0, saw |-> <<>>, got |-> <<>>, step |-> "over"]
Waiting == {n \in DOMAIN asked : asked[n].step # "over"}
ListedTokens == {list[n] : n \in DOMAIN list}

TokensInit ==
    /\ rows \in {<<>>, [i \in {1} |-> "never"]}
    /\ revoked = {} /\ touching = {} /\ tokensPage = "closed" /\ list = <<>> /\ once = 0
    /\ busy = NothingAsked /\ qr = NoQr /\ asked = <<>> /\ signed = TRUE
    /\ tokFaults = 0 /\ tokAstray = FALSE

-----------------------------------------------------------------------------
(* A request of the page: what it asks, for which id, and the list that    *)
(* was drawn when it was made.                                             *)
TokenRequest(op, i) ==
    /\ Len(asked) < MaxTokenAsks
    /\ asked' = Append(asked, [op |-> op, id |-> i, saw |-> IF op = "create" THEN list ELSE <<>>,
                               got |-> <<>>, step |-> "sent"])
    /\ UNCHANGED <<rows, revoked, touching, signed, tokFaults>>

OpenTokens ==
    /\ tokensPage = "closed" /\ Waiting = {}
    /\ TokenRequest("load", 0)
    /\ tokensPage' = "open" /\ list' = <<>> /\ once' = 0 /\ busy' = NothingAsked /\ qr' = NoQr
    /\ tokAstray' = FALSE

CreateToken == /\ tokensPage = "open" /\ ~busy.creating
               /\ TokenRequest("create", 0)
               /\ busy' = [busy EXCEPT !.creating = TRUE]
               /\ UNCHANGED <<tokensPage, list, once, qr, tokAstray>>

RevokeToken(i) == /\ tokensPage = "open" /\ i \in ListedTokens /\ busy.revoking # i
                  /\ TokenRequest("revoke", i)
                  /\ busy' = [busy EXCEPT !.revoking = i]
                  /\ UNCHANGED <<tokensPage, list, once, qr, tokAstray>>

(* The QR section: it makes a token of its own, which the list of the same *)
(* page does not learn of; "New token" forgets it and offers another.      *)
GenerateQr == /\ tokensPage = "open" /\ qr.token = 0 /\ ~qr.loading
              /\ TokenRequest("panel", 0)
              /\ qr' = [qr EXCEPT !.loading = TRUE]
              /\ UNCHANGED <<tokensPage, list, once, busy, tokAstray>>

QrButtons == /\ tokensPage = "open" /\ qr.token # 0
             /\ qr' \in {[qr EXCEPT !.shown = ~@]} \cup IF qr.shown THEN {NoQr} ELSE {}
             /\ UNCHANGED <<rows, revoked, touching, tokensPage, list, once, busy, asked, signed,
                            tokFaults, tokAstray>>

DismissToken == /\ once # 0 /\ once' = 0
                /\ UNCHANGED <<rows, revoked, touching, tokensPage, list, busy, qr, asked, signed,
                               tokFaults, tokAstray>>

-----------------------------------------------------------------------------
(* The service.  A token the page makes never ends: it sends expires_days, *)
(* the service reads expires_in_days; another client may send the latter.  *)
Served(n) ==
    /\ asked[n].step = "sent" /\ signed
    /\ asked' = [asked EXCEPT ![n].step = "done",
                              ![n].got = IF asked[n].op # "load" THEN <<>>
                                         ELSE SetToSeq(DOMAIN rows'),
                              ![n].id = IF asked[n].op \in {"create", "panel"} THEN NextId ELSE @]
    /\ UNCHANGED <<touching, tokensPage, list, once, busy, qr, signed, tokFaults, tokAstray>>

ListTokens(n) == /\ asked[n].op = "load"
                 /\ UNCHANGED <<rows, revoked>>
                 /\ Served(n)

Insert(ends) == rows' = [i \in DOMAIN rows \cup {NextId} |->
                           IF i \in DOMAIN rows THEN rows[i] ELSE ends]

CreateRow(n) == /\ asked[n].op \in {"create", "panel"} /\ NextId <= MaxTokens
                /\ Insert("never") /\ UNCHANGED revoked
                /\ Served(n)

(* A row that is not there is 404, which the page does not look at.        *)
DeleteRow(n) == /\ asked[n].op = "revoke"
                /\ rows' = [i \in DOMAIN rows \ {asked[n].id} |-> rows[i]]
                /\ revoked' = revoked \cup ({asked[n].id} \cap DOMAIN rows)
                /\ Served(n)

CreateElsewhere == /\ NextId <= MaxTokens
                   /\ Insert("later") /\ tokAstray' = TRUE
                   /\ UNCHANGED <<revoked, touching, tokensPage, list, once, busy, qr, asked, signed, tokFaults>>

TokenEnds(i) == /\ rows[i] = "later" /\ rows' = [rows EXCEPT ![i] = "past"]
                /\ UNCHANGED <<revoked, touching, tokensPage, list, once, busy, qr, asked, signed,
                               tokFaults, tokAstray>>

(* validateToken: the row is found, the answer given, and last_used_at is  *)
(* written afterwards by an update that nobody awaits.                     *)
ValidateToken(i) ==
    /\ i \in DOMAIN rows /\ rows[i] # "past"
    /\ touching' = touching \cup {i}
    /\ UNCHANGED <<rows, revoked, tokensPage, list, once, busy, qr, asked, signed, tokFaults, tokAstray>>

(* Faulty variant: the row that was read is saved whole.                   *)
TouchSaves(i) ==
    /\ touching' = touching \ {i}
    /\ rows' = [j \in DOMAIN rows \cup {i} |-> IF j \in DOMAIN rows THEN rows[j] ELSE "never"]
    /\ UNCHANGED <<revoked, tokensPage, list, once, busy, qr, asked, signed, tokFaults, tokAstray>>

Touch(i) ==
    /\ touching' = touching \ {i}
    /\ UNCHANGED <<rows, revoked, tokensPage, list, once, busy, qr, asked, signed, tokFaults, tokAstray>>

-----------------------------------------------------------------------------
(* The answer of a request that was served.                                *)
Over(n) == asked' = [asked EXCEPT ![n] = Past]

(* The load is older than what was done since, or tells already of what    *)
(* another request will tell again: a token is then listed twice.          *)
Overtaken(n) == \/ {asked[n].got[k] : k \in DOMAIN asked[n].got} # DOMAIN rows
                \/ \E k \in Waiting \ {n} : asked[k].step = "done"

(* Faulty variant: a created token is put behind the list that was drawn   *)
(* when the button was pressed.                                            *)
AnswerToStale(n) ==
    LET a == asked[n] IN
    /\ a.step = "done" /\ Over(n)
    /\ list' = CASE a.op = "load" -> a.got
                 [] a.op = "create" -> Append(a.saw, a.id)
                 [] a.op = "revoke" -> Filtered(list, ListedTokens \ {a.id})
                 [] OTHER -> list
    /\ once' = IF a.op = "create" THEN a.id ELSE once
    /\ busy' = CASE a.op = "create" -> [busy EXCEPT !.creating = FALSE]
                 [] a.op = "revoke" -> [busy EXCEPT !.revoking = 0]
                 [] OTHER -> busy
    /\ qr' = IF a.op = "panel" THEN [token |-> a.id, loading |-> FALSE, shown |-> TRUE] ELSE qr
    /\ tokAstray' = CASE a.op = "load" -> Overtaken(n)
                      [] a.op = "panel" -> TRUE
                      [] OTHER -> tokAstray
    /\ UNCHANGED <<rows, revoked, touching, tokensPage, signed, tokFaults>>

(* Each answer changes the list as it is by then; a late answer of the     *)
(* load overwrites what was made or revoked meanwhile.                     *)
AnswerTo(n) ==
    LET a == asked[n] IN
    /\ a.step = "done" /\ Over(n)
    /\ list' = CASE a.op = "load" -> a.got
                 [] a.op = "create" -> Append(list, a.id)
                 [] a.op = "revoke" -> Filtered(list, ListedTokens \ {a.id})
                 [] OTHER -> list
    /\ once' = IF a.op = "create" THEN a.id ELSE once
    /\ busy' = CASE a.op = "create" -> [busy EXCEPT !.creating = FALSE]
                 [] a.op = "revoke" -> [busy EXCEPT !.revoking = 0]
                 [] OTHER -> busy
    /\ qr' = IF a.op = "panel" THEN [token |-> a.id, loading |-> FALSE, shown |-> TRUE] ELSE qr
    /\ tokAstray' = CASE a.op = "load" -> Overtaken(n)
                      [] a.op = "panel" -> TRUE
                      [] OTHER -> tokAstray
    /\ UNCHANGED <<rows, revoked, touching, tokensPage, signed, tokFaults>>

(* JwtAuthGuard refuses a session that ended: the 401 body of the load is  *)
(* taken for the list and breaks the page, a revocation is believed done.  *)
RefusedAsk(n) ==
    LET a == asked[n] IN
    /\ a.step = "sent" /\ ~signed /\ Over(n)
    /\ tokensPage' = IF a.op = "load" THEN "broken" ELSE tokensPage
    /\ list' = IF a.op = "revoke" THEN Filtered(list, ListedTokens \ {a.id}) ELSE list
    /\ busy' = CASE a.op = "create" -> [busy EXCEPT !.creating = FALSE]
                 [] a.op = "revoke" -> [busy EXCEPT !.revoking = 0]
                 [] OTHER -> busy
    /\ qr' = IF a.op = "panel" THEN [qr EXCEPT !.loading = FALSE] ELSE qr
    /\ tokAstray' = (tokAstray \/ a.op \in {"load", "revoke"})
    /\ UNCHANGED <<rows, revoked, touching, once, signed, tokFaults>>

(* The network fails, before or after the service has done it.             *)
AskLost(n) ==
    LET a == asked[n] IN
    /\ a.step # "over" /\ tokFaults < MaxTokenFaults /\ Over(n)
    /\ busy' = CASE a.op = "create" -> [busy EXCEPT !.creating = FALSE]
                 [] a.op = "revoke" -> [busy EXCEPT !.revoking = 0]
                 [] OTHER -> busy
    /\ qr' = IF a.op = "panel" THEN [qr EXCEPT !.loading = FALSE] ELSE qr
    /\ tokAstray' = (tokAstray \/ a.step = "done" \/ a.op = "load")
    /\ tokFaults' = tokFaults + 1
    /\ UNCHANGED <<rows, revoked, touching, tokensPage, list, once, signed>>

SignedOut == /\ signed /\ signed' = FALSE /\ tokFaults < MaxTokenFaults
             /\ tokFaults' = tokFaults + 1
             /\ UNCHANGED <<rows, revoked, touching, tokensPage, list, once, busy, qr, asked, tokAstray>>

(* Leaving the page.                                                       *)
CloseTokens == /\ tokensPage # "closed" /\ Waiting = {}
               /\ tokensPage' = "closed" /\ list' = <<>> /\ once' = 0 /\ busy' = NothingAsked /\ qr' = NoQr
               /\ tokAstray' = FALSE
               /\ UNCHANGED <<rows, revoked, touching, asked, signed, tokFaults>>

TokensNext ==
    \/ OpenTokens \/ CloseTokens \/ CreateToken \/ GenerateQr \/ QrButtons \/ DismissToken
    \/ CreateElsewhere \/ SignedOut
    \/ \E i \in Ids : RevokeToken(i) \/ ValidateToken(i)
    \/ \E i \in DOMAIN rows : TokenEnds(i)
    \/ \E i \in touching : Touch(i)
    \/ \E n \in DOMAIN asked : \/ ListTokens(n) \/ CreateRow(n) \/ DeleteRow(n)
                               \/ AnswerTo(n) \/ RefusedAsk(n) \/ AskLost(n)

TokensSpec == TokensInit /\ [][TokensNext]_tokVars

-----------------------------------------------------------------------------
(* What the two sections draw: a Revoke button per token, disabled while   *)
(* it is being revoked, the new token once, and the QR code.               *)
TokensDrawn == [revocable |-> ListedTokens \ {busy.revoking}, secret |-> once]
QrDrawn == [code |-> IF qr.shown THEN qr.token ELSE 0, offer |-> qr.token = 0]

-----------------------------------------------------------------------------
(* The variables have the shape the code gives them.                       *)
TokensTypeOK ==
    /\ DOMAIN rows \subseteq Ids /\ revoked \subseteq Ids /\ touching \subseteq Ids
    /\ tokensPage \in {"closed", "open", "broken"} /\ ListedTokens \subseteq Ids /\ once \in Ids \cup {0}
    /\ \A n \in DOMAIN asked : asked[n].step \in {"sent", "done", "over"}

(* A token that was revoked never comes back, though it was being used at  *)
(* that moment and its last use is written afterwards.                     *)
RevokedStaysRevoked == revoked \cap DOMAIN rows = {}

(* When the page waits for nothing its list is the table, whatever was     *)
(* made and revoked at the same time: unless the load was overtaken, an    *)
(* answer was lost or refused, or a token was made that it is not told of. *)
TokensAreListed ==
    tokensPage = "open" /\ Waiting = {} /\ ~tokAstray =>
        ListedTokens = DOMAIN rows /\ Len(list) = Cardinality(ListedTokens)
=============================================================================
