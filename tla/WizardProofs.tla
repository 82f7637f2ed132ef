----------------------------- MODULE WizardProofs ----------------------------
(* What TLAPS proves about the wizard, for every set of accounts and devices, *)
(* and for wizards that show the key and that do not.                         *)
EXTENDS Wizard, AdvertDecodingProofs

-----------------------------------------------------------------------------
(* The invariant.                                                             *)

\* What is kept for a pairing, on the way from the list to the job.
Handlers == [at : {"IDLE", "KEYED", "STASHED", "SAVED"}, request : Requests]
RequestTypes == handler \in Handlers /\ request \in Requests
SessionTypes == session.id \in 0 .. MaxLogins /\ cache.login \in 0 .. MaxLogins
                /\ cache.devices \subseteq Devices /\ owned \in [Accounts -> SUBSET Devices]
                /\ session.account \in Accounts \cup {Nobody} /\ logins \in 0 .. MaxLogins
ListTypes == /\ identified \in [Devices -> Families \cup {"NONE"}]
             /\ page \subseteq [mac : Devices, family : Families \cup {"NONE"}]
             /\ recognised \subseteq Devices /\ inRange \subseteq Devices
WizardTypes == RequestTypes /\ SessionTypes /\ ListTypes

\* A list that is cached is the list of the present sign-in.
CacheIsCurrent == cache.devices # {} => cache.login = session.id

\* Both halves of a request are of one sign-in.
OneLogin(r) == r.listedIn = r.keyFrom
LoginInv == CacheIsCurrent /\ OneLogin(handler.request) /\ OneLogin(request)

\* Whatever is recognised is a keypad, and of its own family.
IsKeypad(mac, family) == Kind[mac] # "OTHER" /\ family = FamilyOf(mac)
RequestIsKeypad(r) == r.mac # Nobody => IsKeypad(r.mac, r.family)
FamilyInv ==
    /\ \A d \in Devices : identified[d] # "NONE" => IsKeypad(d, identified[d])
    /\ \A row \in page : IsKeypad(row.mac, row.family)
    /\ RequestIsKeypad(handler.request) /\ RequestIsKeypad(request)

\* What was recognised is remembered, and shown while it is in range.
ListedInv ==
    /\ \A d \in recognised : identified[d] = FamilyOf(d)
    /\ StaysListed

\* Unless they overlap, unpair() comes between two handlers, and only inside
\* handle_pair_ is a key kept that is not stored.
KeyInv ==
    ~overlapped =>
        /\ unpairing => handler = Idle /\ commKey = Nobody
        /\ ~unpairing /\ handler.at # "STASHED" => commKey = nvsCommKey

WizardInv == WizardTypes /\ LoginInv /\ FamilyInv /\ ListedInv /\ KeyInv

-----------------------------------------------------------------------------
(* What the lemmas below share.                                               *)

\* The family of a device.
LEMMA FamilyOfIsOne == \A d : FamilyOf(d) \in Families /\ FamilyOf(d) # "NONE"
BY DEF FamilyOf, Families

\* Outside handle_pair_ no request is built.
LEMMA IdleIsHandler ==
    NoRequest \in Requests /\ Idle \in Handlers /\ Idle.at = "IDLE" /\ Idle.request = NoRequest
<1>1. 0 \in 0 .. MaxLogins
  BY WizardAssumption
<1>2. NoRequest \in Requests
  BY <1>1 DEF NoRequest, Requests, Families
<1> QED BY <1>2 DEF Idle, Handlers

\* A keypad whose service data is received is recognised as what it is; a device of
\* another kind never is.
LEMMA Recognition ==
    ASSUME NEW d \in Devices, NEW answered
    PROVE  /\ Identify(d, answered) = identified[d] \/
              (Kind[d] # "OTHER" /\ Identify(d, answered) = FamilyOf(d))
           /\ d \in answered /\ Kind[d] # "OTHER" => Identify(d, answered) = FamilyOf(d)
<1>1. Kind[d] \in {"ORIGINAL", "VISION", "PRO", "OTHER"}
  BY WizardAssumption
<1>2. NotAKeypad.isKeypad = FALSE
  BY DEF NotAKeypad
<1>3. CASE d \notin answered
  <2>1. IdentifyKeypad(Received(d, answered)) = NotAKeypad
    BY <1>3, NothingNotIdentified DEF Received
  <2> QED BY <1>2, <1>3, <2>1 DEF Identify
<1>4. CASE d \in answered /\ Kind[d] = "OTHER"
  <2>1. IdentifyKeypad(Received(d, answered)) = NotAKeypad
    BY <1>4, KindIsIdentified DEF Received
  <2> QED BY <1>2, <1>4, <2>1 DEF Identify
<1>5. CASE d \in answered /\ Kind[d] # "OTHER"
  <2>1. IdentifyKeypad(Received(d, answered)) = Keypad(FamilyOf(d))
    BY <1>1, <1>5, KindIsIdentified DEF Received, FamilyOf
  <2>2. Keypad(FamilyOf(d)).isKeypad = TRUE /\ Keypad(FamilyOf(d)).family = FamilyOf(d)
    BY DEF Keypad
  <2> QED BY <1>5, <2>1, <2>2 DEF Identify
<1> QED BY <1>3, <1>4, <1>5

\* The list that a handler works with is one of the present sign-in.
LEMMA ListIsCurrent ==
    ASSUME WizardTypes, CacheIsCurrent, MayList
    PROVE  /\ Listed.devices \subseteq Devices /\ Listed.login \in 0 .. MaxLogins
           /\ Listed.devices # {} => Listed.login = session.id
<1>1. CASE cache.devices # {}
  BY <1>1 DEF WizardTypes, SessionTypes, CacheIsCurrent, Listed
<1>2. CASE cache.devices = {}
  <2>1. session.account \in Accounts
    BY DEF MayList, WizardTypes, SessionTypes
  <2>2. Listed = [devices |-> owned[session.account], login |-> session.id]
    BY <1>2 DEF Listed
  <2> QED BY <2>1, <2>2 DEF WizardTypes, SessionTypes
<1> QED BY <1>1, <1>2

-----------------------------------------------------------------------------
(* The sign-in.                                                               *)

\* A step that leaves the session, the list and the requests alone.
LEMMA LoginFrame ==
    ASSUME LoginInv, UNCHANGED <<session, cache, handler, request>>
    PROVE  LoginInv'
BY DEF LoginInv, CacheIsCurrent, OneLogin

\* A new session starts without a list.
LEMMA ClearedStep ==
    ASSUME LoginInv, Clear, handler' \in {handler, Idle}, UNCHANGED request
    PROVE  LoginInv'
BY DEF LoginInv, CacheIsCurrent, OneLogin, Clear, NoCache, Idle, NoRequest

\* A list that was fetched is of this session.
LEMMA ListedStep ==
    ASSUME WizardTypes, LoginInv, MayList, cache' = Listed, UNCHANGED <<session, request>>,
           OneLogin(handler'.request)
    PROVE  LoginInv'
BY ListIsCurrent DEF LoginInv, CacheIsCurrent, OneLogin

\* The request goes with the handler from the list to the job.
LEMMA HandlerMoves ==
    ASSUME RequestTypes, NEW at \in {"IDLE", "KEYED", "STASHED", "SAVED"}
    PROVE  /\ [handler EXCEPT !.at = at] \in Handlers
           /\ [handler EXCEPT !.at = at].request = handler.request
           /\ [handler EXCEPT !.at = at].at = at
BY DEF RequestTypes, Handlers

\* What handle_pair_ builds, of a row of the page and the session.
LEMMA BuiltRequest ==
    ASSUME WizardInv, NEW row \in page, PairRequest(row)
    PROVE  /\ handler' \in Handlers /\ handler'.at \in {"KEYED", "SAVED"}
           /\ OneLogin(handler'.request) /\ RequestIsKeypad(handler'.request)
<1>1. /\ handler' = [at |-> IF ShowKey THEN "KEYED" ELSE "SAVED",
                     request |-> [mac |-> row.mac, family |-> FamilyFromStr(row.family),
                                  listedIn |-> Listed.login, keyFrom |-> session.id]]
      /\ MayList /\ row.mac \in Listed.devices
  BY DEF PairRequest
<1>2. Listed.login = session.id /\ row.mac \in Devices /\ Listed.login \in 0 .. MaxLogins
  BY <1>1, ListIsCurrent DEF WizardInv, LoginInv
<1>3. IsKeypad(row.mac, row.family) /\ row.family \in Families
  BY FamilyOfIsOne DEF WizardInv, FamilyInv, IsKeypad
<1>4. FamilyFromStr(row.family) = row.family
  BY <1>3 DEF Families, FamilyFromStr
<1>5. [mac |-> row.mac, family |-> row.family, listedIn |-> Listed.login,
       keyFrom |-> session.id] \in Requests
  BY <1>2, <1>3 DEF Requests
<1>6. /\ handler'.request = [mac |-> row.mac, family |-> row.family,
                             listedIn |-> Listed.login, keyFrom |-> session.id]
      /\ handler'.at \in {"KEYED", "SAVED"}
      /\ handler' \in Handlers
  <2>1. handler' = [at |-> IF ShowKey THEN "KEYED" ELSE "SAVED",
                    request |-> [mac |-> row.mac, family |-> row.family,
                                 listedIn |-> Listed.login, keyFrom |-> session.id]]
    BY <1>1, <1>4
  <2> QED BY <1>5, <2>1 DEF Handlers
<1> QED BY <1>2, <1>3, <1>6 DEF OneLogin, RequestIsKeypad

\* Every step keeps a list and a request of one sign-in.
LEMMA LoginStep == WizardInv /\ [Next]_vars => LoginInv'
<1> SUFFICES ASSUME WizardInv, [Next]_vars PROVE LoginInv'
  OBVIOUS
<1> USE DEF WizardInv
<1>1. ASSUME NEW a \in Accounts, NEW d \in Devices, AccountChanges(a, d) PROVE LoginInv'
  BY <1>1, LoginFrame DEF AccountChanges, jobVars
<1>2. CASE LoginFails
  BY <1>2, ClearedStep DEF LoginFails, jobVars
<1>3. ASSUME NEW a \in Accounts, NEW region \in {Home[a], "us"}, Login(a, region)
      PROVE  LoginInv'
  BY <1>3, ClearedStep DEF Login, jobVars
<1>4. ASSUME NEW heard \in SUBSET Devices, NEW answered \in SUBSET heard,
             ListKeypads(heard, answered)
      PROVE  LoginInv'
  <2>1. MayList /\ cache' = Listed /\ UNCHANGED <<session, request, handler>>
    BY <1>4 DEF ListKeypads, jobVars
  <2>2. OneLogin(handler'.request)
    BY <2>1 DEF LoginInv
  <2> QED BY <2>1, <2>2, ListedStep
<1>5. ASSUME NEW row \in page, PairRequest(row) PROVE LoginInv'
  <2>1. MayList /\ cache' = Listed /\ UNCHANGED <<session, request>>
    BY <1>5 DEF PairRequest
  <2> QED BY <1>5, <2>1, BuiltRequest, ListedStep
<1>6. CASE PairRefused
  <2>1. MayList /\ cache' = Listed /\ UNCHANGED <<session, request, handler>>
    BY <1>6 DEF PairRefused, jobVars
  <2>2. OneLogin(handler'.request)
    BY <2>1 DEF LoginInv
  <2> QED BY <2>1, <2>2, ListedStep
<1>7. ASSUME NEW at \in {"STASHED", "SAVED"}, handler' = [handler EXCEPT !.at = at],
             UNCHANGED <<session, cache, request>>
      PROVE  LoginInv'
  BY <1>7, HandlerMoves DEF LoginInv, CacheIsCurrent, OneLogin, WizardTypes
<1>8. CASE Stash
  BY <1>7, <1>8 DEF Stash, cloudVars
<1>9. CASE SaveCommKey
  BY <1>7, <1>9 DEF SaveCommKey, cloudVars
<1>10. CASE StartJob
  BY <1>10 DEF StartJob, cloudVars, LoginInv, CacheIsCurrent, OneLogin, Idle, NoRequest
<1>11. CASE JobEnds
  BY <1>11, LoginFrame DEF JobEnds, cloudVars
<1>12. CASE StartAction
  BY <1>12, LoginFrame DEF StartAction, cloudVars
<1>13. CASE ClearCommKey
  BY <1>13, LoginFrame DEF ClearCommKey, cloudVars, jobVars
<1>14. CASE ClearStoredCommKey
  BY <1>14, LoginFrame DEF ClearStoredCommKey, cloudVars, jobVars
<1>15. CASE Restart
  BY <1>15, ClearedStep DEF Restart
<1>16. CASE UNCHANGED vars
  BY <1>16, LoginFrame DEF vars, cloudVars, jobVars
<1> QED BY <1>1, <1>2, <1>3, <1>4, <1>5, <1>6, <1>8, <1>9, <1>10, <1>11, <1>12, <1>13, <1>14,
           <1>15, <1>16 DEF Next

-----------------------------------------------------------------------------
(* The list and the requests.                                                 *)

\* What ListKeypads recognises, and shows.
LEMMA ListShown ==
    ASSUME WizardInv, NEW heard \in SUBSET Devices, NEW answered \in SUBSET heard,
           ListKeypads(heard, answered)
    PROVE  ListTypes' /\ ListedInv'
           /\ (\A d \in Devices : identified'[d] # "NONE" => IsKeypad(d, identified'[d]))
           /\ (\A row \in page' : IsKeypad(row.mac, row.family))
<1> USE DEF WizardInv, WizardTypes
<1>1. /\ inRange' = Listed.devices \cap heard
      /\ identified' =
            [d \in Devices |-> IF d \in inRange' THEN Identify(d, answered) ELSE identified[d]]
      /\ page' = {[mac |-> d, family |-> identified'[d]] :
                      d \in {x \in inRange' : Shown(identified'[x])}}
      /\ recognised' = recognised \cup {d \in inRange' \cap answered : Kind[d] # "OTHER"}
  BY DEF ListKeypads
<1>2. inRange' \subseteq Devices /\ recognised' \subseteq Devices
  BY <1>1 DEF ListTypes
<1>3. \A d \in Devices : identified'[d] \in Families \cup {"NONE"}
                         /\ (identified'[d] # "NONE" => IsKeypad(d, identified'[d]))
  <2> TAKE d \in Devices
  <2>1. identified'[d] = identified[d] \/ (Kind[d] # "OTHER" /\ identified'[d] = FamilyOf(d))
    BY <1>1, Recognition
  <2>2. identified[d] \in Families \cup {"NONE"}
    BY DEF ListTypes
  <2>3. identified[d] # "NONE" => IsKeypad(d, identified[d])
    BY DEF FamilyInv
  <2> QED BY <2>1, <2>2, <2>3, FamilyOfIsOne DEF IsKeypad
<1>4. identified' \in [Devices -> Families \cup {"NONE"}]
  BY <1>1, <1>3
<1>5. ASSUME NEW row \in page'
      PROVE  /\ row \in [mac : Devices, family : Families \cup {"NONE"}]
             /\ IsKeypad(row.mac, row.family)
  <2>1. PICK d \in inRange' : row = [mac |-> d, family |-> identified'[d]]
                              /\ identified'[d] # "NONE"
    BY <1>1 DEF Shown
  <2>2. d \in Devices
    BY <1>2
  <2> QED BY <1>3, <2>1, <2>2
<1>6. \A d \in recognised' : identified'[d] = FamilyOf(d)
  <2> TAKE d \in recognised'
  <2>1. CASE d \in recognised
    <3>1. d \in Devices /\ identified[d] = FamilyOf(d)
      BY <2>1 DEF ListTypes, ListedInv
    <3> QED BY <1>1, <3>1, Recognition
  <2>2. CASE d \in inRange' \cap answered /\ Kind[d] # "OTHER"
    BY <1>1, <1>2, <2>2, Recognition
  <2> QED BY <1>1, <2>1, <2>2
<1>7. StaysListed'
  <2> SUFFICES ASSUME NEW d \in inRange' \cap recognised'
               PROVE  [mac |-> d, family |-> FamilyOf(d)] \in page'
    BY DEF StaysListed
  <2>1. identified'[d] = FamilyOf(d) /\ identified'[d] # "NONE"
    BY <1>6, FamilyOfIsOne
  <2> QED BY <1>1, <2>1 DEF Shown
<1> QED BY <1>2, <1>3, <1>4, <1>5, <1>6, <1>7 DEF ListTypes, ListedInv

\* After a reboot nothing is recognised.
LEMMA NothingRecognised ==
    ASSUME identified' = [d \in Devices |-> "NONE"], recognised' = {},
           UNCHANGED <<page, inRange>>, ListTypes,
           \A row \in page : IsKeypad(row.mac, row.family)
    PROVE  ListTypes' /\ ListedInv'
           /\ (\A d \in Devices : identified'[d] # "NONE" => IsKeypad(d, identified'[d]))
           /\ (\A row \in page' : IsKeypad(row.mac, row.family))
BY DEF ListTypes, ListedInv, StaysListed

\* A step that leaves what is listed, and the browser, alone.
LEMMA ListFrame ==
    ASSUME WizardInv, UNCHANGED listVars
    PROVE  ListTypes' /\ ListedInv'
           /\ (\A d \in Devices : identified'[d] # "NONE" => IsKeypad(d, identified'[d]))
           /\ (\A row \in page' : IsKeypad(row.mac, row.family))
BY DEF WizardInv, WizardTypes, ListTypes, ListedInv, FamilyInv, StaysListed, listVars

\* Only ListKeypads and a reboot change what is listed.
LEMMA ListStep ==
    ASSUME WizardInv, [Next]_vars
    PROVE  ListTypes' /\ ListedInv'
           /\ (\A d \in Devices : identified'[d] # "NONE" => IsKeypad(d, identified'[d]))
           /\ (\A row \in page' : IsKeypad(row.mac, row.family))
<1>1. CASE UNCHANGED listVars
  BY <1>1, ListFrame
<1>2. ASSUME NEW heard \in SUBSET Devices, NEW answered \in SUBSET heard,
             ListKeypads(heard, answered)
      PROVE  ListTypes' /\ ListedInv'
             /\ (\A d \in Devices : identified'[d] # "NONE" => IsKeypad(d, identified'[d]))
             /\ (\A row \in page' : IsKeypad(row.mac, row.family))
  BY <1>2, ListShown
<1>3. CASE Restart
  BY <1>3, NothingRecognised DEF Restart, WizardInv, WizardTypes, FamilyInv
<1>4. \/ UNCHANGED listVars \/ Restart
      \/ \E heard \in SUBSET Devices : \E answered \in SUBSET heard : ListKeypads(heard, answered)
  <2>1. ASSUME NEW a \in Accounts, NEW d \in Devices, AccountChanges(a, d)
        PROVE  UNCHANGED listVars
    BY <2>1 DEF AccountChanges
  <2>2. ASSUME NEW a \in Accounts, NEW region \in {Home[a], "us"}, Login(a, region)
        PROVE  UNCHANGED listVars
    BY <2>2 DEF Login
  <2>3. ASSUME NEW row \in page, PairRequest(row) PROVE UNCHANGED listVars
    BY <2>3 DEF PairRequest
  <2>4. LoginFails \/ PairRefused \/ Stash \/ SaveCommKey \/ StartJob => UNCHANGED listVars
    BY DEF LoginFails, PairRefused, Stash, SaveCommKey, StartJob
  <2>5. JobEnds \/ StartAction \/ ClearCommKey \/ ClearStoredCommKey \/ UNCHANGED vars
            => UNCHANGED listVars
    BY DEF JobEnds, StartAction, ClearCommKey, ClearStoredCommKey, vars
  <2> QED BY <2>1, <2>2, <2>3, <2>4, <2>5 DEF Next
<1> QED BY <1>1, <1>2, <1>3, <1>4

\* The requests are what the handler built of the page.
LEMMA RequestStep ==
    ASSUME WizardInv, [Next]_vars
    PROVE  RequestTypes' /\ RequestIsKeypad(handler'.request) /\ RequestIsKeypad(request')
<1> USE DEF WizardInv, WizardTypes, FamilyInv
<1>1. CASE handler' = handler /\ request' = request
  BY <1>1 DEF RequestTypes
<1>2. ASSUME NEW row \in page, PairRequest(row)
      PROVE  RequestTypes' /\ RequestIsKeypad(handler'.request) /\ RequestIsKeypad(request')
  <2>1. request' = request
    BY <1>2 DEF PairRequest
  <2> QED BY <1>2, <2>1, BuiltRequest DEF RequestTypes
<1>3. ASSUME NEW at \in {"STASHED", "SAVED"}, handler' = [handler EXCEPT !.at = at],
             request' = request
      PROVE  RequestTypes' /\ RequestIsKeypad(handler'.request) /\ RequestIsKeypad(request')
  BY <1>3, HandlerMoves DEF RequestTypes
<1>4. CASE handler' = Idle /\ request' \in {request, handler.request}
  <2>1. handler.request \in Requests
    BY DEF RequestTypes, Handlers
  <2>2. RequestIsKeypad(Idle.request)
    BY IdleIsHandler DEF RequestIsKeypad, NoRequest
  <2> QED BY <1>4, <2>1, <2>2, IdleIsHandler DEF RequestTypes
<1>5. ASSUME NEW a \in Accounts, NEW d \in Devices, AccountChanges(a, d)
      PROVE  handler' = handler /\ request' = request
  BY <1>5 DEF AccountChanges, jobVars
<1>6. ASSUME NEW a \in Accounts, NEW region \in {Home[a], "us"}, Login(a, region)
      PROVE  handler' = handler /\ request' = request
  BY <1>6 DEF Login, jobVars
<1>7. ASSUME NEW heard \in SUBSET Devices, NEW answered \in SUBSET heard,
             ListKeypads(heard, answered)
      PROVE  handler' = handler /\ request' = request
  BY <1>7 DEF ListKeypads, jobVars
<1>8. LoginFails \/ PairRefused \/ JobEnds \/ StartAction \/ ClearCommKey \/ ClearStoredCommKey
      \/ UNCHANGED vars => handler' = handler /\ request' = request
  BY DEF LoginFails, PairRefused, JobEnds, StartAction, ClearCommKey, ClearStoredCommKey, vars,
         jobVars
<1>9. CASE Stash
  BY <1>3, <1>9 DEF Stash
<1>10. CASE SaveCommKey
  BY <1>3, <1>10 DEF SaveCommKey
<1>11. CASE StartJob
  BY <1>4, <1>11 DEF StartJob
<1>12. CASE Restart
  BY <1>4, <1>12 DEF Restart
<1> QED BY <1>1, <1>2, <1>5, <1>6, <1>7, <1>8, <1>9, <1>10, <1>11, <1>12 DEF Next

\* The session and the list of devices keep their types.
LEMMA SessionStep == WizardInv /\ [Next]_vars => SessionTypes'
<1> SUFFICES ASSUME WizardInv, [Next]_vars PROVE SessionTypes'
  OBVIOUS
<1> USE DEF WizardInv, WizardTypes
<1>1. CASE UNCHANGED cloudVars
  BY <1>1 DEF cloudVars, SessionTypes
<1>2. CASE MayList /\ cache' = Listed /\ UNCHANGED <<owned, session, logins>>
  BY <1>2, ListIsCurrent DEF LoginInv, SessionTypes
<1>3. NoSession.id \in 0 .. MaxLogins /\ NoSession.account = Nobody
      /\ NoCache.devices = {} /\ NoCache.login \in 0 .. MaxLogins
  BY WizardAssumption DEF NoSession, NoCache
<1>4. CASE session' = NoSession /\ cache' = NoCache /\ UNCHANGED <<owned, logins>>
  BY <1>3, <1>4 DEF SessionTypes
<1>5. ASSUME NEW a \in Accounts, NEW d \in Devices, AccountChanges(a, d)
      PROVE  SessionTypes'
  <2>1. owned' = [owned EXCEPT ![a] = IF d \in @ THEN @ \ {d} ELSE @ \cup {d}]
        /\ UNCHANGED <<session, cache, logins>>
    BY <1>5 DEF AccountChanges
  <2>2. owned' \in [Accounts -> SUBSET Devices]
    BY <2>1 DEF SessionTypes
  <2> QED BY <2>1, <2>2 DEF SessionTypes
<1>6. ASSUME NEW a \in Accounts, NEW region \in {Home[a], "us"}, Login(a, region)
      PROVE  SessionTypes'
  <2>1. /\ session' = [account |-> a, region |-> region, id |-> logins + 1]
        /\ logins < MaxLogins /\ logins' = logins + 1 /\ cache' = NoCache /\ owned' = owned
    BY <1>6 DEF Login, Clear
  <2>2. logins + 1 \in 0 .. MaxLogins
    BY <2>1, WizardAssumption DEF SessionTypes
  <2> QED BY <1>3, <2>1, <2>2 DEF SessionTypes
<1>7. ASSUME NEW heard \in SUBSET Devices, NEW answered \in SUBSET heard,
             ListKeypads(heard, answered)
      PROVE  SessionTypes'
  BY <1>2, <1>7 DEF ListKeypads
<1>8. ASSUME NEW row \in page, PairRequest(row) PROVE SessionTypes'
  BY <1>2, <1>8 DEF PairRequest
<1>9. CASE PairRefused
  BY <1>2, <1>9 DEF PairRefused
<1>10. CASE LoginFails
  BY <1>4, <1>10 DEF LoginFails, Clear
<1>11. CASE Restart
  BY <1>4, <1>11 DEF Restart, Clear
<1>12. Stash \/ SaveCommKey \/ StartJob \/ JobEnds \/ StartAction => UNCHANGED cloudVars
  BY DEF Stash, SaveCommKey, StartJob, JobEnds, StartAction
<1>13. ClearCommKey \/ ClearStoredCommKey \/ UNCHANGED vars => UNCHANGED cloudVars
  BY DEF ClearCommKey, ClearStoredCommKey, vars
<1> QED BY <1>1, <1>5, <1>6, <1>7, <1>8, <1>9, <1>10, <1>11, <1>12, <1>13 DEF Next

-----------------------------------------------------------------------------
(* The communication key.                                                     *)

\* Only handle_pair_, unpair() and a reboot touch the key.
LEMMA KeyStep == WizardInv /\ [Next]_vars => KeyInv'
<1> SUFFICES ASSUME WizardInv, [Next]_vars PROVE KeyInv'
  OBVIOUS
<1> USE DEF WizardInv, KeyInv
<1>h. RequestTypes
  BY DEF WizardTypes
<1>1. CASE UNCHANGED <<handler, keyVars>>
  BY <1>1 DEF keyVars
<1>2. ASSUME NEW a \in Accounts, NEW d \in Devices, AccountChanges(a, d)
      PROVE  UNCHANGED <<handler, keyVars>>
  BY <1>2 DEF AccountChanges, jobVars
<1>3. ASSUME NEW a \in Accounts, NEW region \in {Home[a], "us"}, Login(a, region)
      PROVE  UNCHANGED <<handler, keyVars>>
  BY <1>3 DEF Login, jobVars
<1>4. ASSUME NEW heard \in SUBSET Devices, NEW answered \in SUBSET heard,
             ListKeypads(heard, answered)
      PROVE  UNCHANGED <<handler, keyVars>>
  BY <1>4 DEF ListKeypads, jobVars
<1>5. LoginFails \/ PairRefused \/ JobEnds \/ StartAction \/ UNCHANGED vars
          => UNCHANGED <<handler, keyVars>>
  BY DEF LoginFails, PairRefused, JobEnds, StartAction, vars, jobVars
<1>6. ASSUME NEW row \in page, PairRequest(row) PROVE KeyInv'
  <2>1. handler = Idle /\ handler'.at \in {"KEYED", "SAVED"}
        /\ overlapped' = (overlapped \/ unpairing)
        /\ UNCHANGED <<commKey, nvsCommKey, unpairing>>
    BY <1>6, BuiltRequest DEF PairRequest
  <2> QED BY <2>1, IdleIsHandler
<1>7. CASE Stash
  <2>1. handler.at = "KEYED" /\ handler'.at = "STASHED" /\ UNCHANGED <<unpairing, overlapped>>
    BY <1>7, <1>h, HandlerMoves DEF Stash
  <2> QED BY <2>1, IdleIsHandler
<1>8. CASE SaveCommKey
  <2>1. handler.at = "STASHED" /\ nvsCommKey' = commKey
        /\ UNCHANGED <<commKey, unpairing, overlapped>>
    BY <1>8 DEF SaveCommKey
  <2> QED BY <2>1, IdleIsHandler
<1>9. CASE StartJob
  <2>1. handler.at = "SAVED" /\ handler' = Idle /\ UNCHANGED keyVars
    BY <1>9 DEF StartJob
  <2> QED BY <2>1, IdleIsHandler DEF keyVars
<1>10. CASE ClearCommKey
  BY <1>10 DEF ClearCommKey, jobVars
<1>11. CASE ClearStoredCommKey
  <2>1. /\ unpairing /\ unpairing' = FALSE /\ nvsCommKey' = Nobody
        /\ UNCHANGED <<handler, commKey, overlapped>>
    BY <1>11 DEF ClearStoredCommKey, ForgetStored, jobVars
  <2> QED BY <2>1
<1>12. CASE Restart
  BY <1>12 DEF Restart
<1> QED BY <1>1, <1>2, <1>3, <1>4, <1>5, <1>6, <1>7, <1>8, <1>9, <1>10, <1>11, <1>12 DEF Next

-----------------------------------------------------------------------------
(* The theorems.                                                              *)

\* Initially nothing is known of any account or device.
LEMMA WizardInit == Init => WizardInv
<1> SUFFICES ASSUME Init PROVE WizardInv
  OBVIOUS
<1>1. /\ owned \in [Accounts -> SUBSET Devices]
      /\ session = NoSession /\ cache = NoCache /\ logins = 0
      /\ identified = [d \in Devices |-> "NONE"] /\ page = {}
      /\ handler = Idle /\ request = NoRequest
      /\ commKey = Nobody /\ nvsCommKey = Nobody /\ unpairing = FALSE
      /\ inRange = {} /\ recognised = {}
  BY DEF Init
<1>2. RequestTypes
  BY <1>1, IdleIsHandler DEF RequestTypes
<1>3. SessionTypes
  <2>1. /\ session.id = 0 /\ cache.login = 0 /\ logins = 0
        /\ session.account = Nobody /\ cache.devices = {}
    BY <1>1 DEF NoSession, NoCache
  <2>2. 0 \in 0 .. MaxLogins
    BY WizardAssumption
  <2> QED BY <1>1, <2>1, <2>2, Zenon DEF SessionTypes
<1>4. ListTypes
  BY <1>1 DEF ListTypes
<1>5. LoginInv
  BY <1>1 DEF LoginInv, CacheIsCurrent, OneLogin, NoCache, Idle, NoRequest
<1>6. FamilyInv
  BY <1>1 DEF FamilyInv, RequestIsKeypad, Idle, NoRequest
<1>7. ListedInv
  BY <1>1 DEF ListedInv, StaysListed
<1>8. KeyInv
  BY <1>1 DEF KeyInv
<1> QED BY <1>2, <1>3, <1>4, <1>5, <1>6, <1>7, <1>8 DEF WizardInv, WizardTypes

\* The invariant of the wizard, of which the theorems below are parts.
THEOREM WizardInvariant == Spec => []WizardInv
<1>1. WizardInv /\ [Next]_vars => WizardInv'
  BY LoginStep, ListStep, RequestStep, SessionStep, KeyStep
     DEF WizardInv, WizardTypes, FamilyInv
<1> QED BY <1>1, WizardInit, PTL DEF Spec

\* The keypad and the key of a pairing are of one sign-in, whichever page was posted.
THEOREM KeypadAndKeyTogether == Spec => []KeypadAndKeyOfOneLogin
<1>1. WizardInv => KeypadAndKeyOfOneLogin
  BY DEF WizardInv, LoginInv, OneLogin, KeypadAndKeyOfOneLogin
<1> QED BY <1>1, WizardInvariant, PTL

\* Only keypads are paired, each in its own dialect.
THEOREM OwnFamily == Spec => []FamilyIsOwn
<1>1. WizardInv => FamilyIsOwn
  BY DEF WizardInv, FamilyInv, RequestIsKeypad, IsKeypad, FamilyIsOwn
<1> QED BY <1>1, WizardInvariant, PTL

\* A keypad that was recognised stays on the list while it is in range.
THEOREM KeypadStaysListed == Spec => []StaysListed
<1>1. WizardInv => StaysListed
  BY DEF WizardInv, ListedInv
<1> QED BY <1>1, WizardInvariant, PTL

\* Between two handlers the key that may be shown is the key that is stored.
THEOREM KeyIsStored == Spec => []CommKeyIsStored
<1>1. WizardInv => CommKeyIsStored
  BY IdleIsHandler DEF WizardInv, KeyInv, CommKeyIsStored
<1> QED BY <1>1, WizardInvariant, PTL
=============================================================================
