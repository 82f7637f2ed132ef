------------------------------ MODULE WebConfig ------------------------------
(* User names and device settings edited in the browser: the HTTP task stages *)
(* an edit in RAM and raises a flag, loop() stores it, setup() reads it back. *)
(* The users are one list behind a mutex, the settings three atomics that are *)
(* written and read one at a time.  A row that says who opened the door is    *)
(* looked up in LockCommands.                                                 *)
(*                                                                            *)
(* Times are in seconds, the unit of the page; a name is a value of its own.  *)
(* A body that does not parse changes nothing.                                *)
EXTENDS LockCommands, FiniteSets

CONSTANTS UserPosts,      \* what is posted to /api/users: sequences of rows
          SettingPosts,   \* what is posted to /api/settings
          YamlUsers,      \* users_
          YamlSettings,   \* the settings compiled in
          Presses,        \* credentials that open: [family, method, slot]
          MaxUsers        \* WEB_USERS_MAX

VARIABLES
    users,          \* web_users_
    usersDirty,     \* web_users_dirty_
    nvsUsers,       \* the users preference: {} or one list
    settings,       \* battery_scan_interval_ms_, min_unlock_interval_ms_, scan_enabled_
    settingsDirty,  \* settings_dirty_
    nvsSettings,    \* the settings preference: {} or one record
    http,           \* where the HTTP task is in a handler, and the request
    main            \* where loop() is in a save, and the blob it builds

userVars == <<users, usersDirty, nvsUsers>>
settingVars == <<settings, settingsDirty, nvsSettings>>
vars == <<userVars, settingVars, http, main>>

-----------------------------------------------------------------------------
(* Conversions of the users list.                                             *)

MethodByte(s) ==
    CASE s = "pin" -> 4 [] s = "nfc" -> 8 [] s = "fingerprint" -> 12 [] s = "face" -> 24
      [] s = "unknown" -> 0 [] OTHER -> AnyMethod

\* The cast to int16_t.
MinInt16 == -32768
MaxInt16 == 32767
Int16(i) == ((i - MinInt16) % 65536) + MinInt16

\* set_web_users_json_ up to the lock: rows with a blank name are skipped, and
\* those beyond the limit.
Named(rows) ==
    [i \in DOMAIN SelectSeq(rows, LAMBDA r : r.name # "") |->
        LET r == SelectSeq(rows, LAMBDA q : q.name # "")[i]
        IN  [method |-> MethodByte(r.method), index |-> Int16(r.index), name |-> r.name]]
First(list) == IF Len(list) > MaxUsers THEN SubSeq(list, 1, MaxUsers) ELSE list
Parse(rows) == First(Named(rows))

\* load_web_users_
LoadUsers(nvs) == IF nvs = {} THEN <<>> ELSE First(CHOOSE list \in nvs : TRUE)

-----------------------------------------------------------------------------
(* Conversions of the settings.  A field of a request is a set of at most one *)
(* value: it may be absent, or of another type.                               *)

MinInterval == 30
MaxInterval == 86400
MaxGap == 60

Clamp(secs, lo, hi) == IF secs < lo THEN lo ELSE IF secs > hi THEN hi ELSE secs
IntervalOf(post, old) ==
    IF post.interval = {} THEN old
    ELSE Clamp(CHOOSE s \in post.interval : TRUE, MinInterval, MaxInterval)
GapOf(post, old) ==
    IF post.gap = {} THEN old ELSE Clamp(CHOOSE s \in post.gap : TRUE, 0, MaxGap)
ScanOf(post, old) == IF post.scan = {} THEN old ELSE CHOOSE b \in post.scan : TRUE
Changes(post) == post.interval # {} \/ post.gap # {} \/ post.scan # {}

\* load_settings_: a stored value overrides the compiled one if it is in range.
LoadSettings(nvs) ==
    IF nvs = {} THEN YamlSettings
    ELSE LET blob == CHOOSE b \in nvs : TRUE
         IN  [interval |-> IF blob.interval >= MinInterval THEN blob.interval
                                                           ELSE YamlSettings.interval,
              gap |-> IF blob.gap <= MaxGap THEN blob.gap ELSE YamlSettings.gap,
              scan |-> blob.scan]

-----------------------------------------------------------------------------
NoPost == [interval |-> {}, gap |-> {}, scan |-> {}]
HttpIdle == [at |-> "IDLE", post |-> NoPost]
MainIdle == [at |-> "IDLE", list |-> <<>>, blob |-> YamlSettings]

Row == [method : 0 .. 255, index : MinInt16 .. MaxInt16, name : STRING]
Settings == [interval : Nat, gap : Nat, scan : BOOLEAN]
UserList(list) == list \in Seq(Row) /\ Len(list) <= MaxUsers

\* The YAML validators bound the interval from below only, and not the gap.
ASSUME ConfigAssumption ==
    /\ MaxUsers \in Nat \ {0}
    /\ \A rows \in UserPosts : Named(rows) \in Seq(Row)
    /\ SettingPosts \subseteq [interval : SUBSET Int, gap : SUBSET Int, scan : SUBSET BOOLEAN]
    /\ YamlSettings \in Settings /\ YamlSettings.interval >= MinInterval
    /\ YamlUsers \in Seq(Row)
    /\ Presses \subseteq [family : {"ORIGINAL", "VISION"}, method : 0 .. 255, slot : 0 .. 255]

TypeOK ==
    /\ UserList(users) /\ \A list \in nvsUsers : UserList(list)
    /\ settings \in Settings /\ nvsSettings \subseteq Settings
    /\ usersDirty \in BOOLEAN /\ settingsDirty \in BOOLEAN
    /\ http \in [at : {"IDLE", "USERS", "INTERVAL", "GAP", "SCAN", "SETTINGS"},
                 post : SettingPosts \cup {NoPost}]
    /\ main \in [at : {"IDLE", "USERS", "USERS_COPIED", "SETTINGS", "GAP", "SCAN", "WRITE"},
                 list : Seq(Row), blob : Settings]
    /\ UserList(main.list)

\* A device without stored edits.
Init ==
    /\ users = <<>> /\ usersDirty = FALSE /\ nvsUsers = {}
    /\ settings = YamlSettings /\ settingsDirty = FALSE /\ nvsSettings = {}
    /\ http = HttpIdle /\ main = MainIdle

-----------------------------------------------------------------------------
(* HTTP task.                                                                 *)

\* set_web_users_json_: the list is replaced under the mutex, then flagged.
SetWebUsers(rows) ==
    /\ http.at = "IDLE"
    /\ users' = Parse(rows)
    /\ http' = [http EXCEPT !.at = "USERS"]
    /\ UNCHANGED <<usersDirty, nvsUsers, settingVars, main>>

FlagUsers ==
    /\ http.at = "USERS"
    /\ usersDirty' = TRUE
    /\ http' = HttpIdle
    /\ UNCHANGED <<users, nvsUsers, settingVars, main>>

\* set_web_settings_json_: three stores, and the flag if there was any.
SetWebSettings(post) ==
    /\ http.at = "IDLE" /\ Changes(post)
    /\ http' = [at |-> "INTERVAL", post |-> post]
    /\ UNCHANGED <<userVars, settingVars, main>>

StoreInterval ==
    /\ http.at = "INTERVAL"
    /\ settings' = [settings EXCEPT !.interval = IntervalOf(http.post, @)]
    /\ http' = [http EXCEPT !.at = "GAP"]
    /\ UNCHANGED <<userVars, settingsDirty, nvsSettings, main>>

StoreGap ==
    /\ http.at = "GAP"
    /\ settings' = [settings EXCEPT !.gap = GapOf(http.post, @)]
    /\ http' = [http EXCEPT !.at = "SCAN"]
    /\ UNCHANGED <<userVars, settingsDirty, nvsSettings, main>>

StoreScan ==
    /\ http.at = "SCAN"
    /\ settings' = [settings EXCEPT !.scan = ScanOf(http.post, @)]
    /\ http' = [http EXCEPT !.at = "SETTINGS"]
    /\ UNCHANGED <<userVars, settingsDirty, nvsSettings, main>>

FlagSettings ==
    /\ http.at = "SETTINGS"
    /\ settingsDirty' = TRUE
    /\ http' = HttpIdle
    /\ UNCHANGED <<userVars, settings, nvsSettings, main>>

HttpStep == FlagUsers \/ StoreInterval \/ StoreGap \/ StoreScan \/ FlagSettings

-----------------------------------------------------------------------------
(* loop(), on the main task: the users first, then the settings.              *)

\* web_users_dirty_.exchange(false)
TakeUsersFlag ==
    /\ main.at = "IDLE" /\ usersDirty
    /\ usersDirty' = FALSE
    /\ main' = [main EXCEPT !.at = "USERS"]
    /\ UNCHANGED <<users, nvsUsers, settingVars, http>>

\* save_web_users_: copied under the mutex, then saved and synced.
CopyUsers ==
    /\ main.at = "USERS"
    /\ main' = [main EXCEPT !.at = "USERS_COPIED", !.list = First(users)]
    /\ UNCHANGED <<userVars, settingVars, http>>

SaveUsersAndClear ==
    /\ main.at = "USERS_COPIED"
    /\ nvsUsers' = {main.list} /\ usersDirty' = FALSE
    /\ main' = [MainIdle EXCEPT !.at = "SETTINGS"]
    /\ UNCHANGED <<users, settingVars, http>>
SaveUsers ==
    /\ main.at = "USERS_COPIED"
    /\ nvsUsers' = {main.list}
    /\ main' = [MainIdle EXCEPT !.at = "SETTINGS"]
    /\ UNCHANGED <<users, usersDirty, settingVars, http>>

NoUsersFlag ==
    /\ main.at = "IDLE" /\ ~usersDirty
    /\ main' = [main EXCEPT !.at = "SETTINGS"]
    /\ UNCHANGED <<userVars, settingVars, http>>

\* settings_dirty_.exchange(false), and the first load of save_settings_.
TakeSettingsFlag ==
    /\ main.at = "SETTINGS" /\ settingsDirty
    /\ settingsDirty' = FALSE
    /\ main' = [MainIdle EXCEPT !.at = "GAP", !.blob.interval = settings.interval]
    /\ UNCHANGED <<userVars, settings, nvsSettings, http>>

NoSettingsFlag ==
    /\ main.at = "SETTINGS" /\ ~settingsDirty
    /\ main' = MainIdle
    /\ UNCHANGED <<userVars, settingVars, http>>

LoadGap ==
    /\ main.at = "GAP"
    /\ main' = [main EXCEPT !.at = "SCAN", !.blob.gap = settings.gap]
    /\ UNCHANGED <<userVars, settingVars, http>>

LoadScan ==
    /\ main.at = "SCAN"
    /\ main' = [main EXCEPT !.at = "WRITE", !.blob.scan = settings.scan]
    /\ UNCHANGED <<userVars, settingVars, http>>

SaveSettingsAndClear ==
    /\ main.at = "WRITE"
    /\ nvsSettings' = {main.blob} /\ settingsDirty' = FALSE
    /\ main' = MainIdle
    /\ UNCHANGED <<userVars, settings, http>>
SaveSettings ==
    /\ main.at = "WRITE"
    /\ nvsSettings' = {main.blob}
    /\ main' = MainIdle
    /\ UNCHANGED <<userVars, settings, settingsDirty, http>>

MainStep ==
    \/ TakeUsersFlag \/ NoUsersFlag \/ CopyUsers \/ SaveUsers
    \/ TakeSettingsFlag \/ NoSettingsFlag \/ LoadGap \/ LoadScan \/ SaveSettings

-----------------------------------------------------------------------------
\* The power fails, and setup() reads NVS over what was compiled in.
Restart ==
    /\ users' = LoadUsers(nvsUsers) /\ settings' = LoadSettings(nvsSettings)
    /\ usersDirty' = FALSE /\ settingsDirty' = FALSE
    /\ http' = HttpIdle /\ main' = MainIdle
    /\ UNCHANGED <<nvsUsers, nvsSettings>>

Next ==
    \/ \E rows \in UserPosts : SetWebUsers(rows)
    \/ \E post \in SettingPosts : SetWebSettings(post)
    \/ HttpStep \/ MainStep \/ Restart

Spec == Init /\ [][Next]_vars

-----------------------------------------------------------------------------
(* Properties.                                                                *)

Names(row, press) ==
    row.method \in {press.method, AnyMethod} /\ (row.index = press.slot \/ row.index < 0)
MoreSpecific(a, b) ==
    LET exact(row) == row.method # AnyMethod /\ row.index >= 0
        slotOnly(row) == row.method = AnyMethod /\ row.index >= 0
    IN  \/ a.method # AnyMethod /\ b.method = AnyMethod
        \/ exact(a) /\ ~exact(b)
        \/ slotOnly(a) /\ b.method = AnyMethod /\ ~slotOnly(b)

\* No accepted edit of the users is lost: unless a flag or a running save still
\* stands for it, a reboot would read back the very list that RAM has, even if
\* the list was replaced while an older one was being stored.
UsersKept ==
    http.at # "USERS" /\ ~usersDirty /\ main.at \notin {"USERS", "USERS_COPIED"}
        => LoadUsers(nvsUsers) = users

\* The same for the settings: a save that loaded the three values while a request
\* was storing them may write a mixture, but another save then follows, and all
\* that is saved is read back, the compiled values out of range included.
SettingsKept ==
    (/\ http.at \notin {"GAP", "SCAN", "SETTINGS"} /\ ~settingsDirty
     /\ main.at \notin {"GAP", "SCAN", "WRITE"})
        => LoadSettings(nvsSettings) = settings

\* Every accepted credential is reported under the name the lists give it: the
\* frame is decoded to the method and the slot the keypad enrolled, and of the rows
\* that apply an exact one beats a method with any slot, which beats any method;
\* among equals an edited row beats a compiled one, the last edited row the others
\* and the first compiled row the others.  (A Vision slot of 10 or more is taken
\* for a slot of the other family, which the code's comment concedes.)
OpenerIsNamed ==
    \A press \in {p \in Presses : p.family = "VISION" => p.slot < IndexBase} :
        LET frame == UnlockFrame(press.family, press.method, press.slot)
            cmd == DecodeLockCommand(frame)
            name == LookupUser(users, YamlUsers, cmd.method, cmd.index)
            rows == Reverse(YamlUsers) \o users
            hits == {i \in DOMAIN rows : Names(rows[i], press)}
        IN  /\ cmd.type = "UNLOCK"
            /\ hits = {} => name = ""
            /\ hits # {} => \E i \in hits :
                /\ rows[i].name = name
                /\ \A j \in hits \ {i} :
                    \/ MoreSpecific(rows[i], rows[j])
                    \/ ~MoreSpecific(rows[j], rows[i]) /\ j < i
=============================================================================
