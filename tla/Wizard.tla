-------------------------------- MODULE Wizard -------------------------------
(* From the sign-in to a pairing request: the wizard's handlers, the cloud    *)
(* client's session and its list of devices, the keypads recognised by their  *)
(* adverts, and the communication key that the console may show.  The page in *)
(* the browser lives through new sign-ins and reboots of the bridge.          *)
(*                                                                            *)
(* All handlers run on the HTTP task.  One is an action of its own, except    *)
(* where it shares the communication key with unpair() on the main task.  A   *)
(* handler that the cloud, or a guard, refuses before it changes anything is  *)
(* no step.                                                                   *)
EXTENDS AdvertDecoding, FiniteSets

CONSTANTS Accounts,
          Devices,
          Kind,           \* of each device: "ORIGINAL", "VISION", "PRO" or "OTHER"
          Home,           \* the cloud region of each account
          MaxLogins,      \* bound: accepted sign-ins
          ShowKey         \* log_keys_

Nobody == "nobody"

ASSUME WizardAssumption ==
    /\ Nobody \notin Accounts \cup Devices
    /\ Kind \in [Devices -> {"ORIGINAL", "VISION", "PRO", "OTHER"}]
    /\ MaxLogins \in Nat \ {0} /\ ShowKey \in BOOLEAN

VARIABLES
    owned,       \* the cloud: the devices of each account
    session,     \* auth_token_ as its account, region_; history: its number
    cache,       \* devices_cache_; history: the session it was filled in
    identified,  \* identified_keypads_
    page,        \* rows of the browser's list of keypads
    handler,     \* where handle_pair_ is, and the request it builds
    running,     \* the pairer's status is RUNNING
    request,     \* the request of the latest job
    commKey,     \* comm_key_mac_, with the id and key that go with it
    nvsCommKey,  \* its preference
    unpairing,   \* unpair() is inside clear_comm_key()
    logins,      \* history: accepted sign-ins
    inRange,     \* history: what the latest list heard of the account's devices
    recognised,  \* history: keypads recognised since the reboot
    overlapped   \* history: unpair() and handle_pair_ were under way together

cloudVars == <<owned, session, cache, logins>>
listVars == <<identified, page, inRange, recognised>>
jobVars == <<handler, running, request>>
keyVars == <<commKey, nvsCommKey, unpairing, overlapped>>
vars == <<cloudVars, listVars, jobVars, keyVars>>

FamilyOf(d) == IF Kind[d] = "ORIGINAL" THEN "ORIGINAL" ELSE "VISION"
Families == {"ORIGINAL", "VISION"}
Regions == {Home[a] : a \in Accounts} \cup {"us", ""}

NoSession == [account |-> Nobody, region |-> "", id |-> 0]
NoCache == [devices |-> {}, login |-> 0]
NoRequest == [mac |-> Nobody, family |-> "ORIGINAL", listedIn |-> 0, keyFrom |-> 0]
Idle == [at |-> "IDLE", request |-> NoRequest]

Requests == [mac : Devices \cup {Nobody}, family : Families, listedIn : 0 .. MaxLogins,
             keyFrom : 0 .. MaxLogins]

TypeOK ==
    /\ owned \in [Accounts -> SUBSET Devices]
    /\ session \in [account : Accounts \cup {Nobody}, region : Regions, id : 0 .. MaxLogins]
    /\ cache \in [devices : SUBSET Devices, login : 0 .. MaxLogins]
    /\ identified \in [Devices -> Families \cup {"NONE"}]
    /\ page \subseteq [mac : Devices, family : Families \cup {"NONE"}]
    /\ handler \in [at : {"IDLE", "KEYED", "STASHED", "SAVED"}, request : Requests]
    /\ running \in BOOLEAN /\ request \in Requests
    /\ commKey \in Devices \cup {Nobody} /\ nvsCommKey \in Devices \cup {Nobody}
    /\ unpairing \in BOOLEAN /\ overlapped \in BOOLEAN
    /\ logins \in 0 .. MaxLogins
    /\ inRange \subseteq Devices /\ recognised \subseteq Devices

\* A bridge that was just set up; the accounts have any devices.
Init ==
    /\ owned \in [Accounts -> SUBSET Devices]
    /\ session = NoSession /\ cache = NoCache /\ logins = 0
    /\ identified = [d \in Devices |-> "NONE"] /\ page = {}
    /\ handler = Idle /\ running = FALSE /\ request = NoRequest
    /\ commKey = Nobody /\ nvsCommKey = Nobody /\ unpairing = FALSE /\ overlapped = FALSE
    /\ inRange = {} /\ recognised = {}

-----------------------------------------------------------------------------
(* The cloud.                                                                 *)

AccountChanges(a, d) ==
    /\ owned' = [owned EXCEPT ![a] = IF d \in @ THEN @ \ {d} ELSE @ \cup {d}]
    /\ UNCHANGED <<session, cache, logins, listVars, jobVars, keyVars>>

\* It answers for an account in that account's region.
CloudAnswers == session.account # Nobody /\ session.region = Home[session.account]

-----------------------------------------------------------------------------
(* handle_login_ and CloudClient::login.                                      *)

ClearSessionOnly == cache' = cache
\* clear(), before anything is asked.
Clear == cache' = NoCache

LoginFails ==
    /\ handler = Idle
    /\ session' = NoSession /\ Clear
    /\ UNCHANGED <<owned, logins, listVars, jobVars, keyVars>>

\* Without an answer about the region it is taken to be "us".
Login(a, region) ==
    /\ handler = Idle /\ logins < MaxLogins
    /\ session' = [account |-> a, region |-> region, id |-> logins + 1]
    /\ Clear
    /\ logins' = logins + 1
    /\ UNCHANGED <<owned, listVars, jobVars, keyVars>>

-----------------------------------------------------------------------------
(* list_devices: an empty list is not a cached one.                           *)

MayList == session.account # Nobody /\ (cache.devices # {} \/ CloudAnswers)
Listed ==
    IF cache.devices # {} THEN cache
    ELSE [devices |-> owned[session.account], login |-> session.id]

-----------------------------------------------------------------------------
(* handle_keypads_.                                                           *)

\* The service data rides in the scan response, which may be missed.
Received(d, answered) == IF d \in answered THEN ServiceData(Kind[d], 80) ELSE <<>>

IdentifyThisScan(d, answered) ==
    LET ident == IdentifyKeypad(Received(d, answered))
    IN  IF ident.isKeypad THEN ident.family ELSE "NONE"
\* What was recognised in an earlier scan still counts.
Identify(d, answered) ==
    LET ident == IdentifyKeypad(Received(d, answered))
    IN  IF ident.isKeypad THEN ident.family ELSE identified[d]

ShownEven(family) == TRUE
Shown(family) == family # "NONE"

ListKeypads(heard, answered) ==
    /\ handler = Idle /\ ~running /\ MayList
    /\ cache' = Listed
    /\ inRange' = Listed.devices \cap heard
    /\ identified' =
        [d \in Devices |-> IF d \in inRange' THEN Identify(d, answered) ELSE identified[d]]
    /\ page' = {[mac |-> d, family |-> identified'[d]] :
                    d \in {x \in inRange' : Shown(identified'[x])}}
    /\ recognised' = recognised \cup {d \in inRange' \cap answered : Kind[d] # "OTHER"}
    /\ UNCHANGED <<owned, session, logins, jobVars, keyVars>>

-----------------------------------------------------------------------------
(* handle_pair_.                                                              *)

FamilyFromStr(family) == IF family = "VISION" THEN "VISION" ELSE "ORIGINAL"

\* fetch_keypad_key
KeyFetched(mac) == CloudAnswers /\ mac \in owned[session.account]

\* A row of the page is posted back.  Its keypad must be on the list, and the
\* cloud must have its key.
PairRequest(row) ==
    /\ handler = Idle /\ MayList
    /\ cache' = Listed
    /\ row.mac \in Listed.devices
    /\ KeyFetched(row.mac)
    /\ handler' = [at |-> IF ShowKey THEN "KEYED" ELSE "SAVED",
                   request |-> [mac |-> row.mac, family |-> FamilyFromStr(row.family),
                                listedIn |-> Listed.login, keyFrom |-> session.id]]
    /\ overlapped' = (overlapped \/ unpairing)
    /\ UNCHANGED <<owned, session, logins, listVars, running, request, commKey, nvsCommKey,
                   unpairing>>

\* Refused after the list was fetched, which stays cached.
PairRefused ==
    /\ handler = Idle /\ MayList
    /\ cache' = Listed
    /\ UNCHANGED <<owned, session, logins, listVars, jobVars, keyVars>>

Stash ==
    /\ handler.at = "KEYED"
    /\ commKey' = handler.request.mac
    /\ handler' = [handler EXCEPT !.at = "STASHED"]
    /\ UNCHANGED <<cloudVars, listVars, running, request, nvsCommKey, unpairing, overlapped>>

\* save_comm_key_
SaveCommKey ==
    /\ handler.at = "STASHED"
    /\ nvsCommKey' = commKey
    /\ handler' = [handler EXCEPT !.at = "SAVED"]
    /\ UNCHANGED <<cloudVars, listVars, running, request, commKey, unpairing, overlapped>>

\* start() refuses while a job runs.
StartJob ==
    /\ handler.at = "SAVED"
    /\ handler' = Idle
    /\ running' = TRUE
    /\ request' = IF running THEN request ELSE handler.request
    /\ UNCHANGED <<cloudVars, listVars, keyVars>>

-----------------------------------------------------------------------------
(* Other tasks.                                                               *)

JobEnds ==
    /\ running
    /\ running' = FALSE
    /\ UNCHANGED <<cloudVars, listVars, handler, request, keyVars>>

\* send_raw_command and read_settings, on the main task.
StartAction ==
    /\ ~running /\ ~unpairing
    /\ running' = TRUE
    /\ UNCHANGED <<cloudVars, listVars, handler, request, keyVars>>

\* UnpairButton, and clear_comm_key(), first in RAM, then in NVS.
ClearCommKey ==
    /\ ~running /\ ~unpairing
    /\ commKey' = Nobody /\ unpairing' = TRUE
    /\ overlapped' = (overlapped \/ handler # Idle)
    /\ UNCHANGED <<cloudVars, listVars, jobVars, nvsCommKey>>

ForgetNothing == nvsCommKey' = nvsCommKey
ForgetStored == nvsCommKey' = Nobody

ClearStoredCommKey ==
    /\ unpairing
    /\ unpairing' = FALSE /\ ForgetStored
    /\ UNCHANGED <<cloudVars, listVars, jobVars, commKey, overlapped>>

\* The power fails: of all this only the stored key is read back.
Restart ==
    /\ session' = NoSession /\ Clear
    /\ identified' = [d \in Devices |-> "NONE"] /\ recognised' = {}
    /\ handler' = Idle /\ running' = FALSE
    /\ commKey' = nvsCommKey /\ unpairing' = FALSE /\ overlapped' = FALSE
    /\ UNCHANGED <<owned, logins, page, inRange, request, nvsCommKey>>

Next ==
    \/ \E a \in Accounts, d \in Devices : AccountChanges(a, d)
    \/ LoginFails
    \/ \E a \in Accounts : \E region \in {Home[a], "us"} : Login(a, region)
    \/ \E heard \in SUBSET Devices : \E answered \in SUBSET heard : ListKeypads(heard, answered)
    \/ \E row \in page : PairRequest(row)
    \/ PairRefused \/ Stash \/ SaveCommKey \/ StartJob
    \/ JobEnds \/ StartAction \/ ClearCommKey \/ ClearStoredCommKey \/ Restart

Spec == Init /\ [][Next]_vars

-----------------------------------------------------------------------------
(* Properties.                                                                *)

\* A pairing is started with a keypad and a key of one sign-in, even if its row was
\* shown under an earlier one: a keypad of the account that was signed in before is
\* never paired.
KeypadAndKeyOfOneLogin == request.listedIn = request.keyFrom

\* Only keypads are paired, and each in the dialect of its own family, whichever
\* scans missed its scan response and however old the page is.
FamilyIsOwn ==
    request.mac # Nobody =>
        Kind[request.mac] # "OTHER" /\ request.family = FamilyOf(request.mac)

\* A keypad that was recognised once since the reboot does not drop out of the list
\* while it is in range, whether its scan response is received again or not.
StaysListed == \A d \in inRange \cap recognised : [mac |-> d, family |-> FamilyOf(d)] \in page

\* Between two handlers a reboot changes nothing of the communication key: the key
\* shown is the key stored, and unpair() forgets both, unless it came in the middle
\* of handle_pair_.  So README.md:443 and pairing_ui.cpp:446-447 have it ("survives a
\* reboot/reflash"); docs/protocol.md:69-70 denies it, see CommKeyInRamOnly.
CommKeyIsStored == handler = Idle /\ ~unpairing /\ ~overlapped => commKey = nvsCommKey

\* The communication key "lives in RAM only" (docs/protocol.md:69-70): nothing of it
\* is ever stored.  The code stores it with every pairing, so this does not hold.
CommKeyInRamOnly == nvsCommKey = Nobody
=============================================================================
