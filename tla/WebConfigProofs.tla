---------------------------- MODULE WebConfigProofs --------------------------
(* What TLAPS proves about the edits of users and settings, for every list    *)
(* that may be posted, every limit and every compiled-in default.             *)
EXTENDS WebConfig, SequenceTheorems, WellFoundedInduction, TLAPS

\* What is stored is at most one list, and it is within the limit.
OneListStored == nvsUsers = {} \/ \E list : nvsUsers = {list} /\ UserList(list)

\* A save of the users that has begun writes the list in RAM, unless a newer list
\* has been, or is about to be, flagged.
UsersOnTheirWay ==
    main.at = "USERS_COPIED" /\ http.at # "USERS" /\ ~usersDirty => main.list = users

\* A value that was posted is in range; one that was compiled in need not be.
InRange(s) ==
    /\ s.interval >= MinInterval
    /\ s.gap <= MaxGap \/ s.gap = YamlSettings.gap

SettingsInRange ==
    /\ InRange(settings)
    /\ nvsSettings = {} \/ \E s \in Settings : nvsSettings = {s} /\ InRange(s)
    /\ InRange(main.blob)

\* The same for the settings, value by value as they are loaded.
SettingsOnTheirWay ==
    http.at \notin {"GAP", "SCAN", "SETTINGS"} /\ ~settingsDirty =>
        /\ main.at \in {"GAP", "SCAN", "WRITE"} => main.blob.interval = settings.interval
        /\ main.at \in {"SCAN", "WRITE"} => main.blob.gap = settings.gap
        /\ main.at = "WRITE" => main.blob.scan = settings.scan

UsersInv == OneListStored /\ UsersOnTheirWay /\ UsersKept
SettingsInv == SettingsInRange /\ SettingsOnTheirWay /\ SettingsKept
ConfigInv == TypeOK /\ UsersInv /\ SettingsInv

-----------------------------------------------------------------------------
(* The conversions.                                                           *)

\* The limit cuts a list once, and never one within it.
LEMMA FirstIsUserList ==
    ASSUME NEW list \in Seq(Row)
    PROVE  /\ UserList(First(list))
           /\ Len(list) <= MaxUsers => First(list) = list
<1>1. CASE Len(list) > MaxUsers
  <2>1. \A i \in 1 .. MaxUsers : list[i] \in Row
    BY <1>1, ConfigAssumption
  <2>2. SubSeq(list, 1, MaxUsers) \in Seq(Row) /\ Len(SubSeq(list, 1, MaxUsers)) = MaxUsers
    BY <1>1, ConfigAssumption, SubSeqProperties
  <2> QED BY <1>1, <2>2, ConfigAssumption DEF First, UserList
<1>2. CASE ~(Len(list) > MaxUsers)
  BY <1>2, ConfigAssumption DEF First, UserList
<1> QED BY <1>1, <1>2

\* What is posted becomes a list within the limit.
LEMMA ParseIsUserList == \A rows \in UserPosts : UserList(Parse(rows))
BY ConfigAssumption, FirstIsUserList DEF Parse

\* setup() reads back the list that was stored, whole.
LEMMA LoadIsStored ==
    ASSUME NEW list, UserList(list)
    PROVE  LoadUsers({list}) = list
<1>1. (CHOOSE l \in {list} : TRUE) = list
  OBVIOUS
<1>2. First(list) = list
  BY FirstIsUserList DEF UserList
<1> QED BY <1>1, <1>2 DEF LoadUsers

\* Without a stored list there is none.
LEMMA LoadNothing == LoadUsers({}) = << >> /\ UserList(<< >>)
<1>1. << >> \in Seq(Row) /\ Len(<< >>) = 0
  BY EmptySeq
<1> QED BY <1>1, ConfigAssumption DEF LoadUsers, UserList

\* The limits are in order.
LEMMA LimitsInOrder ==
    /\ MinInterval \in Nat /\ MaxInterval \in Nat /\ MinInterval <= MaxInterval
    /\ MaxGap \in Nat
BY SMT DEF MinInterval, MaxInterval, MaxGap

\* A value that is present is one of those that may be.
LEMMA PresentValue ==
    ASSUME NEW T, NEW S, S \subseteq T, S # {}
    PROVE  (CHOOSE x \in S : TRUE) \in T
<1>1. PICK x : x \in S
  OBVIOUS
<1> QED BY <1>1

\* A clamped value is in range.
LEMMA ClampRange ==
    ASSUME NEW i \in Int, NEW lo \in Int, NEW hi \in Int, lo <= hi
    PROVE  Clamp(i, lo, hi) \in lo .. hi
<1>1. CASE i < lo
  BY <1>1 DEF Clamp
<1>2. CASE ~(i < lo) /\ i > hi
  BY <1>2 DEF Clamp
<1>3. CASE ~(i < lo) /\ ~(i > hi)
  BY <1>3 DEF Clamp
<1> QED BY <1>1, <1>2, <1>3

\* Posted values are clamped into range.
LEMMA PostedInRange ==
    ASSUME NEW post \in SettingPosts \cup {NoPost}, NEW s \in Settings, InRange(s)
    PROVE  /\ IntervalOf(post, s.interval) \in Nat /\ IntervalOf(post, s.interval) >= MinInterval
           /\ GapOf(post, s.gap) \in Nat
           /\ GapOf(post, s.gap) <= MaxGap \/ GapOf(post, s.gap) = YamlSettings.gap
           /\ ScanOf(post, s.scan) \in BOOLEAN
<1>1. post.interval \subseteq Int /\ post.gap \subseteq Int /\ post.scan \subseteq BOOLEAN
  BY ConfigAssumption DEF NoPost
<1>2. s.interval \in Nat /\ s.gap \in Nat /\ s.scan \in BOOLEAN
  BY DEF Settings
<1>3. ASSUME NEW i \in Int
      PROVE  Clamp(i, MinInterval, MaxInterval) \in MinInterval .. MaxInterval
             /\ Clamp(i, 0, MaxGap) \in 0 .. MaxGap
  BY ClampRange, LimitsInOrder
<1>4. post.interval # {} => (CHOOSE i \in post.interval : TRUE) \in Int
  BY <1>1, PresentValue
<1>5. post.gap # {} => (CHOOSE i \in post.gap : TRUE) \in Int
  BY <1>1, PresentValue
<1>6. post.scan # {} => (CHOOSE b \in post.scan : TRUE) \in BOOLEAN
  BY <1>1, PresentValue
<1>7. IntervalOf(post, s.interval) \in Nat /\ IntervalOf(post, s.interval) >= MinInterval
  BY <1>2, <1>3, <1>4, LimitsInOrder DEF IntervalOf, InRange
<1>8. GapOf(post, s.gap) \in Nat
      /\ (GapOf(post, s.gap) <= MaxGap \/ GapOf(post, s.gap) = YamlSettings.gap)
  BY <1>2, <1>3, <1>5, LimitsInOrder DEF GapOf, InRange
<1>9. ScanOf(post, s.scan) \in BOOLEAN
  BY <1>2, <1>6 DEF ScanOf
<1> QED BY <1>7, <1>8, <1>9

\* setup() reads back the settings that were stored, those compiled in out of range
\* included.
LEMMA LoadIsStoredSettings ==
    ASSUME NEW s \in Settings, InRange(s)
    PROVE  LoadSettings({s}) = s
<1>1. (CHOOSE b \in {s} : TRUE) = s
  OBVIOUS
<1>2. s = [interval |-> s.interval, gap |-> s.gap, scan |-> s.scan]
  BY DEF Settings
<1>3. IF s.interval >= MinInterval THEN s.interval = s.interval ELSE FALSE
  BY DEF InRange
<1>4. (IF s.gap <= MaxGap THEN s.gap ELSE YamlSettings.gap) = s.gap
  BY DEF InRange
<1> QED BY <1>1, <1>2, <1>3, <1>4 DEF LoadSettings

\* Without stored settings those compiled in count.
LEMMA LoadNoSettings == LoadSettings({}) = YamlSettings /\ InRange(YamlSettings)
BY ConfigAssumption DEF LoadSettings, InRange

-----------------------------------------------------------------------------
(* The steps of the two tasks.                                                *)

\* The HTTP task's edits.
LEMMA HttpTypeStep ==
    ASSUME TypeOK, SettingsInRange,
           \/ \E rows \in UserPosts : SetWebUsers(rows)
           \/ \E post \in SettingPosts : SetWebSettings(post)
           \/ HttpStep
    PROVE  TypeOK' /\ InRange(settings)'
<1> USE DEF userVars, settingVars
<1>1. ASSUME NEW rows \in UserPosts, SetWebUsers(rows) PROVE TypeOK' /\ InRange(settings)'
  <2>1. UserList(users')
    BY <1>1, ParseIsUserList DEF SetWebUsers
  <2> QED BY <1>1, <2>1 DEF SetWebUsers, TypeOK, SettingsInRange, InRange
<1>2. ASSUME NEW post \in SettingPosts, SetWebSettings(post) PROVE TypeOK' /\ InRange(settings)'
  BY <1>2 DEF SetWebSettings, TypeOK, SettingsInRange, InRange
<1>3. CASE FlagUsers
  BY <1>3 DEF FlagUsers, HttpIdle, TypeOK, SettingsInRange, InRange
<1>4. settings \in Settings /\ InRange(settings) /\ http.post \in SettingPosts \cup {NoPost}
  BY DEF TypeOK, SettingsInRange
<1>5. CASE StoreInterval
  <2> DEFINE new == IntervalOf(http.post, settings.interval)
  <2>1. new \in Nat /\ new >= MinInterval
    BY <1>4, PostedInRange
  <2>2. settings' = [settings EXCEPT !.interval = new]
    BY <1>5 DEF StoreInterval
  <2>3. settings' \in Settings /\ settings'.interval = new /\ settings'.gap = settings.gap
    BY <1>4, <2>1, <2>2 DEF Settings
  <2>4. InRange(settings)'
    BY <1>4, <2>1, <2>3 DEF InRange
  <2> QED BY <1>5, <2>3, <2>4 DEF StoreInterval, TypeOK
<1>6. CASE StoreGap
  <2> DEFINE new == GapOf(http.post, settings.gap)
  <2>1. new \in Nat /\ (new <= MaxGap \/ new = YamlSettings.gap)
    BY <1>4, PostedInRange
  <2>2. settings' = [settings EXCEPT !.gap = new]
    BY <1>6 DEF StoreGap
  <2>3. settings' \in Settings /\ settings'.interval = settings.interval /\ settings'.gap = new
    BY <1>4, <2>1, <2>2 DEF Settings
  <2>4. InRange(settings)'
    BY <1>4, <2>1, <2>3 DEF InRange
  <2> QED BY <1>6, <2>3, <2>4 DEF StoreGap, TypeOK
<1>7. CASE StoreScan
  <2> DEFINE new == ScanOf(http.post, settings.scan)
  <2>1. new \in BOOLEAN
    BY <1>4, PostedInRange
  <2>2. settings' = [settings EXCEPT !.scan = new]
    BY <1>7 DEF StoreScan
  <2>3. settings' \in Settings /\ settings'.interval = settings.interval
        /\ settings'.gap = settings.gap
    BY <1>4, <2>1, <2>2 DEF Settings
  <2>4. InRange(settings)'
    BY <1>4, <2>3 DEF InRange
  <2> QED BY <1>7, <2>3, <2>4 DEF StoreScan, TypeOK
<1>8. CASE FlagSettings
  BY <1>8 DEF FlagSettings, HttpIdle, TypeOK, SettingsInRange, InRange
<1> QED BY <1>1, <1>2, <1>3, <1>5, <1>6, <1>7, <1>8 DEF HttpStep

\* loop()'s saves, and what a reboot reads back.
LEMMA MainTypeStep ==
    ASSUME TypeOK, OneListStored, SettingsInRange, MainStep \/ Restart
    PROVE  TypeOK' /\ OneListStored' /\ SettingsInRange'
<1> DEFINE Mains == [at : {"IDLE", "USERS", "USERS_COPIED", "SETTINGS", "GAP", "SCAN", "WRITE"},
                     list : Seq(Row), blob : Settings]
           Fine(m) == m \in Mains /\ UserList(m.list) /\ InRange(m.blob)
           Stored == nvsSettings = {} \/ \E s \in Settings : nvsSettings = {s} /\ InRange(s)
<1>a. settings \in Settings /\ InRange(settings) /\ Fine(main) /\ UserList(users) /\ Stored
  BY DEF TypeOK, SettingsInRange
<1>b. Fine(MainIdle)
  BY LoadNothing, LoadNoSettings, ConfigAssumption DEF MainIdle, UserList
<1>c. ASSUME NEW m, Fine(m), NEW at \in {"USERS", "SETTINGS", "GAP", "SCAN", "WRITE"}
      PROVE  Fine([m EXCEPT !.at = at])
  BY <1>c
<1>1. CASE TakeUsersFlag \/ NoUsersFlag
  <2>1. Fine(main') /\ UNCHANGED <<users, nvsUsers, settings, nvsSettings, http>>
    BY <1>1, <1>a, <1>c DEF TakeUsersFlag, NoUsersFlag, userVars, settingVars
  <2>2. usersDirty' \in BOOLEAN /\ settingsDirty' \in BOOLEAN
    BY <1>1 DEF TakeUsersFlag, NoUsersFlag, userVars, settingVars, TypeOK
  <2>3. TypeOK'
    BY <2>1, <2>2 DEF TypeOK
  <2>4. OneListStored' /\ Stored'
    BY <2>1, <1>a DEF OneListStored
  <2>5. InRange(settings)'
    BY <2>1, <1>a DEF InRange
  <2> QED BY <2>1, <2>3, <2>4, <2>5 DEF SettingsInRange
<1>2. CASE CopyUsers
  <2>1. UserList(First(users)) /\ First(users) \in Seq(Row)
    BY <1>a, FirstIsUserList DEF UserList
  <2>2. main' = [main EXCEPT !.at = "USERS_COPIED", !.list = First(users)]
        /\ UNCHANGED <<users, usersDirty, nvsUsers, settings, settingsDirty, nvsSettings, http>>
    BY <1>2 DEF CopyUsers, userVars, settingVars
  <2>3. main' \in Mains /\ main'.list = First(users) /\ main'.blob = main.blob
    BY <2>1, <2>2, <1>a
  <2>4. Fine(main')
    BY <2>1, <2>3, <1>a
  <2> QED BY <2>2, <2>4, <1>a DEF TypeOK, OneListStored, SettingsInRange, InRange
<1>3. CASE SaveUsers
  <2>1. Fine(main') /\ nvsUsers' = {main.list}
        /\ UNCHANGED <<users, usersDirty, settings, settingsDirty, nvsSettings, http>>
    BY <1>3, <1>b, <1>c DEF SaveUsers, settingVars
  <2> QED BY <2>1, <1>a DEF TypeOK, OneListStored, SettingsInRange, InRange
<1>4. CASE TakeSettingsFlag
  <2>1. main' = [MainIdle EXCEPT !.at = "GAP", !.blob.interval = settings.interval]
        /\ UNCHANGED <<users, usersDirty, nvsUsers, settings, nvsSettings, http>>
        /\ settingsDirty' = FALSE
    BY <1>4 DEF TakeSettingsFlag, userVars
  <2>2. main' \in Mains /\ main'.list = MainIdle.list
        /\ main'.blob.interval = settings.interval /\ main'.blob.gap = MainIdle.blob.gap
    BY <2>1, <1>a, <1>b DEF Settings
  <2>3. Fine(main')
    BY <2>2, <1>a, <1>b DEF InRange
  <2> QED BY <2>1, <2>3, <1>a DEF TypeOK, OneListStored, SettingsInRange, InRange
<1>5. CASE NoSettingsFlag
  <2>1. Fine(main')
        /\ UNCHANGED <<users, usersDirty, nvsUsers, settings, settingsDirty, nvsSettings, http>>
    BY <1>5, <1>b DEF NoSettingsFlag, userVars, settingVars
  <2> QED BY <2>1, <1>a DEF TypeOK, OneListStored, SettingsInRange, InRange
<1>6. CASE LoadGap
  <2>1. main' = [main EXCEPT !.at = "SCAN", !.blob.gap = settings.gap]
        /\ UNCHANGED <<users, usersDirty, nvsUsers, settings, settingsDirty, nvsSettings, http>>
    BY <1>6 DEF LoadGap, userVars, settingVars
  <2>2. main' \in Mains /\ main'.list = main.list
        /\ main'.blob.interval = main.blob.interval /\ main'.blob.gap = settings.gap
    BY <2>1, <1>a DEF Settings
  <2>3. Fine(main')
    BY <2>2, <1>a DEF InRange
  <2> QED BY <2>1, <2>3, <1>a DEF TypeOK, OneListStored, SettingsInRange, InRange
<1>7. CASE LoadScan
  <2>1. main' = [main EXCEPT !.at = "WRITE", !.blob.scan = settings.scan]
        /\ UNCHANGED <<users, usersDirty, nvsUsers, settings, settingsDirty, nvsSettings, http>>
    BY <1>7 DEF LoadScan, userVars, settingVars
  <2>2. main' \in Mains /\ main'.list = main.list
        /\ main'.blob.interval = main.blob.interval /\ main'.blob.gap = main.blob.gap
    BY <2>1, <1>a DEF Settings
  <2>3. Fine(main')
    BY <2>2, <1>a DEF InRange
  <2> QED BY <2>1, <2>3, <1>a DEF TypeOK, OneListStored, SettingsInRange, InRange
<1>8. CASE SaveSettings
  <2>1. Fine(main') /\ nvsSettings' = {main.blob} /\ main.blob \in Settings
        /\ UNCHANGED <<users, usersDirty, nvsUsers, settings, settingsDirty, http>>
    BY <1>8, <1>a, <1>b DEF SaveSettings, userVars
  <2> QED BY <2>1, <1>a DEF TypeOK, OneListStored, SettingsInRange, InRange
<1>9. CASE Restart
  <2>1. Fine(main') /\ UNCHANGED <<nvsUsers, nvsSettings>> /\ http' = HttpIdle
        /\ usersDirty' = FALSE /\ settingsDirty' = FALSE
    BY <1>9, <1>b DEF Restart
  <2>2. UserList(users')
    BY <1>9, LoadNothing, LoadIsStored DEF Restart, OneListStored
  <2>3. settings' \in Settings /\ InRange(settings')
    BY <1>9, <1>a, LoadNoSettings, LoadIsStoredSettings, ConfigAssumption DEF Restart
  <2> QED BY <2>1, <2>2, <2>3, <1>a DEF TypeOK, OneListStored, SettingsInRange, InRange, HttpIdle
<1> QED BY <1>1, <1>2, <1>3, <1>4, <1>5, <1>6, <1>7, <1>8, <1>9 DEF MainStep

\* The HTTP task writes nothing that is stored or on its way to be.
LEMMA HttpFrame ==
    ASSUME \/ \E rows \in UserPosts : SetWebUsers(rows)
           \/ \E post \in SettingPosts : SetWebSettings(post)
           \/ HttpStep
    PROVE  UNCHANGED <<nvsUsers, nvsSettings, main>>
BY DEF SetWebUsers, SetWebSettings, HttpStep, FlagUsers, StoreInterval, StoreGap, StoreScan,
       FlagSettings, userVars, settingVars

\* The HTTP task touches the users only while a save is still owed for them.
LEMMA HttpUsersStep ==
    ASSUME TypeOK, UsersInv, InRange(settings)', SettingsInRange,
           \/ \E rows \in UserPosts : SetWebUsers(rows)
           \/ \E post \in SettingPosts : SetWebSettings(post)
           \/ HttpStep
    PROVE  UsersInv' /\ SettingsInRange'
<1>1. UNCHANGED <<nvsUsers, nvsSettings, main>>
  BY HttpFrame
<1>2. OneListStored' /\ SettingsInRange'
  BY <1>1 DEF UsersInv, OneListStored, SettingsInRange, InRange
<1>3. http'.at = "USERS" \/ usersDirty'
      \/ (UNCHANGED <<users, usersDirty>> /\ http.at # "USERS")
  BY DEF SetWebUsers, SetWebSettings, HttpStep, FlagUsers, StoreInterval, StoreGap, StoreScan,
         FlagSettings, userVars, settingVars, TypeOK
<1>4. UsersOnTheirWay'
  BY <1>1, <1>3 DEF UsersInv, UsersOnTheirWay
<1>5. UsersKept'
  BY <1>1, <1>3 DEF UsersInv, UsersKept
<1> QED BY <1>2, <1>4, <1>5 DEF UsersInv

\* The HTTP task touches the settings only while a save is still owed for them.
LEMMA HttpSettingsStep ==
    ASSUME SettingsOnTheirWay, SettingsKept, TypeOK,
           \/ \E rows \in UserPosts : SetWebUsers(rows)
           \/ \E post \in SettingPosts : SetWebSettings(post)
           \/ HttpStep
    PROVE  SettingsOnTheirWay' /\ SettingsKept'
<1>1. UNCHANGED <<nvsUsers, nvsSettings, main>>
  BY HttpFrame
<1>2. \/ http'.at \in {"GAP", "SCAN", "SETTINGS"}
      \/ settingsDirty'
      \/ UNCHANGED <<settings, settingsDirty>> /\ http.at \notin {"GAP", "SCAN", "SETTINGS"}
  BY DEF SetWebUsers, SetWebSettings, HttpStep, FlagUsers, StoreInterval, StoreGap, StoreScan,
         FlagSettings, userVars, settingVars, TypeOK
<1>3. SettingsOnTheirWay'
  BY <1>1, <1>2 DEF SettingsOnTheirWay
<1>4. SettingsKept'
  BY <1>1, <1>2 DEF SettingsKept
<1> QED BY <1>3, <1>4

\* loop() puts the list in RAM in the way of NVS before it takes the flag for done.
LEMMA MainUsersStep ==
    ASSUME TypeOK, UsersInv, MainStep \/ Restart
    PROVE  UsersOnTheirWay' /\ UsersKept'
<1> USE DEF UsersInv
<1>a. main.at \in {"IDLE", "USERS", "USERS_COPIED", "SETTINGS", "GAP", "SCAN", "WRITE"}
      /\ UserList(users) /\ UserList(main.list)
  BY DEF TypeOK
<1>1. CASE TakeUsersFlag \/ NoUsersFlag
  <2>1. main'.at \in {"USERS", "SETTINGS"} /\ UNCHANGED <<users, nvsUsers, http>>
        /\ (main'.at = "SETTINGS" => main.at = "IDLE" /\ usersDirty' = usersDirty)
    BY <1>1, <1>a DEF TakeUsersFlag, NoUsersFlag, userVars, TypeOK
  <2> QED BY <2>1 DEF UsersOnTheirWay, UsersKept
<1>2. CASE CopyUsers
  <2>1. First(users) = users
    BY <1>a, FirstIsUserList DEF UserList
  <2>2. main'.at = "USERS_COPIED" /\ main'.list = users /\ users' = users
    BY <1>2, <2>1 DEF CopyUsers, userVars, TypeOK
  <2> QED BY <2>2 DEF UsersOnTheirWay, UsersKept
<1>3. CASE SaveUsers
  <2>1. main.at = "USERS_COPIED" /\ main'.at = "SETTINGS" /\ nvsUsers' = {main.list}
        /\ UNCHANGED <<users, usersDirty, http>>
    BY <1>3 DEF SaveUsers, MainIdle
  <2>2. LoadUsers(nvsUsers') = main.list
    BY <1>a, <2>1, LoadIsStored
  <2> QED BY <2>1, <2>2 DEF UsersOnTheirWay, UsersKept
<1>4. CASE TakeSettingsFlag \/ NoSettingsFlag \/ LoadGap \/ LoadScan \/ SaveSettings
  <2>1. main.at \in {"SETTINGS", "GAP", "SCAN", "WRITE"}
    BY <1>4 DEF TakeSettingsFlag, NoSettingsFlag, LoadGap, LoadScan, SaveSettings
  <2>2. main'.at \in {"IDLE", "GAP", "SCAN", "WRITE"}
    <3>1. TakeSettingsFlag => main'.at = "GAP"
      BY DEF TakeSettingsFlag, MainIdle
    <3>2. NoSettingsFlag \/ SaveSettings => main'.at = "IDLE"
      BY DEF NoSettingsFlag, SaveSettings, MainIdle
    <3>3. (LoadGap => main'.at = "SCAN") /\ (LoadScan => main'.at = "WRITE")
      BY DEF LoadGap, LoadScan, TypeOK
    <3> QED BY <1>4, <3>1, <3>2, <3>3
  <2>3. UNCHANGED <<users, usersDirty, nvsUsers, http>>
    BY <1>4 DEF TakeSettingsFlag, NoSettingsFlag, LoadGap, LoadScan, SaveSettings, userVars
  <2> QED BY <2>1, <2>2, <2>3 DEF UsersOnTheirWay, UsersKept
<1>5. CASE Restart
  BY <1>5 DEF Restart, MainIdle, UsersOnTheirWay, UsersKept
<1> QED BY <1>1, <1>2, <1>3, <1>4, <1>5 DEF MainStep

\* loop() loads the three values after it has taken the flag.
LEMMA MainSettingsStep ==
    ASSUME TypeOK, SettingsInv, MainStep \/ Restart
    PROVE  SettingsOnTheirWay' /\ SettingsKept'
<1> USE DEF SettingsInv
<1>a. main \in [at : {"IDLE", "USERS", "USERS_COPIED", "SETTINGS", "GAP", "SCAN", "WRITE"},
                list : Seq(Row), blob : Settings]
      /\ settings \in Settings /\ InRange(main.blob)
  BY DEF TypeOK, SettingsInRange
<1>1. CASE TakeUsersFlag \/ NoUsersFlag \/ CopyUsers \/ SaveUsers \/ NoSettingsFlag
  <2>1. main.at \in {"IDLE", "USERS", "USERS_COPIED", "SETTINGS"}
    BY <1>1 DEF TakeUsersFlag, NoUsersFlag, CopyUsers, SaveUsers, NoSettingsFlag
  <2>2. main'.at \in {"IDLE", "USERS", "USERS_COPIED", "SETTINGS"}
    <3>1. SaveUsers => main'.at = "SETTINGS"
      BY DEF SaveUsers, MainIdle
    <3>2. NoSettingsFlag => main'.at = "IDLE"
      BY DEF NoSettingsFlag, MainIdle
    <3>3. /\ TakeUsersFlag => main'.at = "USERS"
          /\ NoUsersFlag => main'.at = "SETTINGS"
          /\ CopyUsers => main'.at = "USERS_COPIED"
      BY <1>a DEF TakeUsersFlag, NoUsersFlag, CopyUsers
    <3> QED BY <1>1, <3>1, <3>2, <3>3
  <2>3. UNCHANGED <<settings, settingsDirty, nvsSettings, http>>
    BY <1>1 DEF TakeUsersFlag, NoUsersFlag, CopyUsers, SaveUsers, NoSettingsFlag, settingVars
  <2> QED BY <2>1, <2>2, <2>3 DEF SettingsOnTheirWay, SettingsKept
<1>2. CASE TakeSettingsFlag
  <2>1. main' = [MainIdle EXCEPT !.at = "GAP", !.blob.interval = settings.interval]
        /\ settings' = settings
    BY <1>2 DEF TakeSettingsFlag
  <2>2. main'.at = "GAP" /\ main'.blob.interval = settings.interval
    BY <2>1, <1>a, ConfigAssumption DEF MainIdle, Settings
  <2> QED BY <2>1, <2>2 DEF SettingsOnTheirWay, SettingsKept
<1>3. CASE LoadGap
  <2>1. main' = [main EXCEPT !.at = "SCAN", !.blob.gap = settings.gap] /\ main.at = "GAP"
        /\ UNCHANGED <<settings, settingsDirty, http>>
    BY <1>3 DEF LoadGap, settingVars
  <2>2. main'.at = "SCAN" /\ main'.blob.interval = main.blob.interval
        /\ main'.blob.gap = settings.gap
    BY <2>1, <1>a DEF Settings
  <2> QED BY <2>1, <2>2 DEF SettingsOnTheirWay, SettingsKept
<1>4. CASE LoadScan
  <2>1. main' = [main EXCEPT !.at = "WRITE", !.blob.scan = settings.scan] /\ main.at = "SCAN"
        /\ UNCHANGED <<settings, settingsDirty, http>>
    BY <1>4 DEF LoadScan, settingVars
  <2>2. main'.at = "WRITE" /\ main'.blob.interval = main.blob.interval
        /\ main'.blob.gap = main.blob.gap /\ main'.blob.scan = settings.scan
    BY <2>1, <1>a DEF Settings
  <2> QED BY <2>1, <2>2 DEF SettingsOnTheirWay, SettingsKept
<1>5. CASE SaveSettings
  <2>1. main.at = "WRITE" /\ main'.at = "IDLE" /\ nvsSettings' = {main.blob}
        /\ UNCHANGED <<settings, settingsDirty, http>>
    BY <1>5 DEF SaveSettings, MainIdle
  <2>2. LoadSettings(nvsSettings') = main.blob
    BY <1>a, <2>1, LoadIsStoredSettings
  <2>3. ASSUME main.blob.interval = settings.interval, main.blob.gap = settings.gap,
               main.blob.scan = settings.scan
        PROVE  main.blob = settings
    BY <1>a, <2>3 DEF Settings
  <2> QED BY <2>1, <2>2, <2>3 DEF SettingsOnTheirWay, SettingsKept
<1>6. CASE Restart
  BY <1>6 DEF Restart, MainIdle, SettingsOnTheirWay, SettingsKept
<1> QED BY <1>1, <1>2, <1>3, <1>4, <1>5, <1>6 DEF MainStep

\* A device without stored edits satisfies the invariant.
LEMMA ConfigInit == Init => ConfigInv
<1> SUFFICES ASSUME Init PROVE ConfigInv
  OBVIOUS
<1>1. TypeOK
  BY LoadNothing, ConfigAssumption DEF Init, TypeOK, HttpIdle, MainIdle, UserList
<1>2. UsersInv
  BY LoadNothing DEF Init, UsersInv, OneListStored, UsersOnTheirWay, UsersKept, MainIdle
<1>3. SettingsInRange
  BY LoadNoSettings DEF Init, SettingsInRange, MainIdle
<1>4. SettingsOnTheirWay /\ SettingsKept
  BY LoadNoSettings DEF Init, SettingsOnTheirWay, SettingsKept, MainIdle
<1> QED BY <1>1, <1>2, <1>3, <1>4 DEF ConfigInv, SettingsInv

\* Every step preserves it.
LEMMA ConfigStep == ConfigInv /\ [Next]_vars => ConfigInv'
<1> SUFFICES ASSUME ConfigInv, [Next]_vars PROVE ConfigInv'
  OBVIOUS
<1> USE DEF ConfigInv, UsersInv, SettingsInv
<1>1. CASE \/ \E rows \in UserPosts : SetWebUsers(rows)
           \/ \E post \in SettingPosts : SetWebSettings(post)
           \/ HttpStep
  <2>1. TypeOK' /\ InRange(settings)'
    BY <1>1, HttpTypeStep
  <2>2. UsersInv' /\ SettingsInRange'
    BY <1>1, <2>1, HttpUsersStep
  <2>3. SettingsOnTheirWay' /\ SettingsKept'
    BY <1>1, HttpSettingsStep
  <2> QED BY <2>1, <2>2, <2>3
<1>2. CASE MainStep \/ Restart
  <2>1. TypeOK' /\ OneListStored' /\ SettingsInRange'
    BY <1>2, MainTypeStep
  <2>2. UsersOnTheirWay' /\ UsersKept'
    BY <1>2, MainUsersStep
  <2>3. SettingsOnTheirWay' /\ SettingsKept'
    BY <1>2, MainSettingsStep
  <2> QED BY <2>1, <2>2, <2>3
<1>3. CASE UNCHANGED vars
  BY <1>3 DEF vars, userVars, settingVars, TypeOK, OneListStored, UsersOnTheirWay, UsersKept,
              SettingsInRange, InRange, SettingsOnTheirWay, SettingsKept
<1> QED BY <1>1, <1>2, <1>3 DEF Next

-----------------------------------------------------------------------------
\* Where every edit is on its way to NVS, at every step of the two tasks.
THEOREM ConfigInvariant == Spec => []ConfigInv
<1>1. Init => ConfigInv
  BY ConfigInit
<1>2. ConfigInv /\ [Next]_vars => ConfigInv'
  BY ConfigStep
<1> QED BY <1>1, <1>2, PTL DEF Spec

\* The list in RAM is the one a reboot reads back, once no flag or save stands for it.
THEOREM UsersAreKept == Spec => []UsersKept
<1>1. ConfigInv => UsersKept
  BY DEF ConfigInv, UsersInv
<1> QED BY <1>1, ConfigInvariant, PTL

\* And so are the three settings, a save that wrote a mixture of two edits included.
THEOREM SettingsAreKept == Spec => []SettingsKept
<1>1. ConfigInv => SettingsKept
  BY DEF ConfigInv, SettingsInv
<1> QED BY <1>1, ConfigInvariant, PTL

-----------------------------------------------------------------------------
(* Who opened: decode_lock_command and lookup_user_.  What ScanRows computes  *)
(* is shown by induction on the rows, as a set of numbers closed under + 1.   *)

\* A set of numbers that holds 0 and with each number the next one holds all.
LEMMA NumbersByOnes ==
    ASSUME NEW S \in SUBSET Nat, 0 \in S, \A n \in S : n + 1 \in S
    PROVE  S = Nat
<1> SUFFICES ASSUME Nat \ S # {} PROVE FALSE
  OBVIOUS
<1>1. IsWellFoundedOn(OpToRel(<, Nat), Nat)
  BY NatLessThanWellFounded
<1>2. PICK n \in Nat \ S : \A m \in Nat \ S : ~(<<m, n>> \in OpToRel(<, Nat))
  <2>1. Nat \ S \subseteq Nat
    OBVIOUS
  <2> QED BY <1>1, <2>1, WFMin
<1>3. \A m \in Nat \ S : ~(m < n)
  BY <1>2 DEF OpToRel
<1>4. n # 0 /\ n - 1 \in Nat /\ n - 1 \in S
  BY <1>3
<1>5. (n - 1) + 1 \in S /\ (n - 1) + 1 = n
  BY <1>4
<1> QED BY <1>2, <1>5

\* The recursion of ScanRows has a solution, so that ScanRows is its last value.
LEMMA PassExists ==
    ASSUME NEW rows \in Seq(Row), NEW ties, NEW m, NEW x, NEW best
    PROVE  \E pass :
             /\ pass = [i \in 0 .. Len(rows) |->
                          IF i = 0 THEN best ELSE Better(pass[i - 1], rows[i], ties, m, x)]
             /\ ScanRows(rows, ties, m, x, best) = pass[Len(rows)]
<1> DEFINE Solves(g, n) ==
             g = [i \in 0 .. n |->
                    IF i = 0 THEN best ELSE Better(g[i - 1], rows[i], ties, m, x)]
           S == {n \in Nat : \E g : Solves(g, n)}
<1>1. 0 \in S
  <2> DEFINE g == [i \in 0 .. 0 |-> best]
  <2>1. Solves(g, 0)
    OBVIOUS
  <2> QED BY <2>1
<1>2. ASSUME NEW n \in S PROVE n + 1 \in S
  <2>1. PICK g : Solves(g, n)
    OBVIOUS
  <2> DEFINE h == [i \in 0 .. n + 1 |->
                     IF i <= n THEN g[i] ELSE Better(g[n], rows[n + 1], ties, m, x)]
  <2>2. n \in Nat
    OBVIOUS
  <2>3. ASSUME NEW i \in 0 .. n + 1
        PROVE  h[i] = IF i = 0 THEN best ELSE Better(h[i - 1], rows[i], ties, m, x)
    <3>1. CASE i = 0
      <4>1. h[0] = g[0] /\ g[0] = best
        BY <2>1, <2>2
      <4> QED BY <3>1, <4>1
    <3>2. CASE i \in 1 .. n
      <4>1. h[i] = g[i] /\ h[i - 1] = g[i - 1]
        BY <2>2, <3>2
      <4>2. g[i] = Better(g[i - 1], rows[i], ties, m, x)
        BY <2>1, <2>2, <3>2
      <4> HIDE DEF h
      <4> QED BY <3>2, <4>1, <4>2
    <3>3. CASE i = n + 1
      <4>1. h[n + 1] = Better(g[n], rows[n + 1], ties, m, x) /\ h[n] = g[n]
        BY <2>2
      <4> HIDE DEF h
      <4> QED BY <2>2, <3>3, <4>1
    <3> QED BY <2>2, <3>1, <3>2, <3>3
  <2>4. Solves(h, n + 1)
    BY <2>3
  <2>5. \E f : Solves(f, n + 1)
    <3> HIDE DEF h, Solves
    <3> QED BY <2>4
  <2> QED BY <2>2, <2>5
<1>3. S = Nat
  <2> HIDE DEF S
  <2>1. S \subseteq Nat
    BY DEF S
  <2> QED BY <1>1, <1>2, <2>1, NumbersByOnes
<1>4. Len(rows) \in S
  <2> HIDE DEF S
  <2> QED BY <1>3
<1> DEFINE pass == CHOOSE g : Solves(g, Len(rows))
<1>5. Solves(pass, Len(rows))
  BY <1>4
<1>6. ScanRows(rows, ties, m, x, best) = pass[Len(rows)]
  BY DEF ScanRows
<1> QED BY <1>5, <1>6

Beats(ties, s, t) == s > t \/ (ties /\ s = t)

\* What a pass that began with start holds after n rows: start if no row that
\* applies beats it, and otherwise the row that beats all the others.
BestOf(rows, n, ties, m, x, start, b) ==
    LET hits == {k \in 1 .. n : Applies(rows[k], m, x)}
    IN  \/ b = start /\ \A k \in hits : ~Beats(ties, Score(rows[k]), start.score)
        \/ \E k \in hits :
              /\ b = [score |-> Score(rows[k]), name |-> rows[k].name]
              /\ Beats(ties, Score(rows[k]), start.score)
              /\ \A j \in hits :
                   \/ Score(rows[j]) < Score(rows[k])
                   \/ Score(rows[j]) = Score(rows[k]) /\ (IF ties THEN j <= k ELSE k <= j)

LEMMA ScoreRange == \A row \in Row : Score(row) \in 0 .. 3
BY DEF Score, Row

\* One more row.
LEMMA BestOfStep ==
    ASSUME NEW rows \in Seq(Row), NEW n \in Nat, n + 1 <= Len(rows),
           NEW ties \in BOOLEAN, NEW m, NEW x, NEW start, start.score \in Int,
           NEW b, BestOf(rows, n, ties, m, x, start, b)
    PROVE  BestOf(rows, n + 1, ties, m, x, start, Better(b, rows[n + 1], ties, m, x))
<1> DEFINE new == rows[n + 1]
           score(k) == Score(rows[k])
           hits(i) == {k \in 1 .. i : Applies(rows[k], m, x)}
<1>1. \A k \in 1 .. n + 1 : score(k) \in 0 .. 3
  BY ScoreRange
<1>2. hits(n + 1) = IF Applies(new, m, x) THEN hits(n) \cup {n + 1} ELSE hits(n)
  OBVIOUS
<1>3. hits(n) \subseteq 1 .. n /\ n + 1 \notin hits(n)
  OBVIOUS
<1>4. CASE ~Applies(new, m, x)
  BY <1>2, <1>4 DEF BestOf, Better
<1>5. CASE Applies(new, m, x)
  <2>1. hits(n + 1) = hits(n) \cup {n + 1}
    BY <1>2, <1>5
  <2>2. CASE b = start /\ \A k \in hits(n) : ~Beats(ties, score(k), start.score)
    <3>1. CASE Beats(ties, Score(new), start.score)
      <4>1. Better(b, new, ties, m, x) = [score |-> Score(new), name |-> new.name]
        BY <1>5, <2>2, <3>1 DEF Better, Beats
      <4>2. ASSUME NEW j \in hits(n + 1)
            PROVE  \/ score(j) < score(n + 1)
                   \/ score(j) = score(n + 1) /\ (IF ties THEN j <= n + 1 ELSE n + 1 <= j)
        <5> HIDE DEF hits, score
        <5>1. CASE j = n + 1
          BY <5>1, <1>1
        <5>2. CASE j \in hits(n)
          <6>1. score(j) \in Int /\ score(n + 1) \in Int /\ j \in 1 .. n
            BY <1>1, <1>3, <5>2
          <6>2. ~Beats(ties, score(j), start.score)
            BY <5>2, <2>2
          <6>3. Beats(ties, score(n + 1), start.score)
            BY <3>1 DEF score
          <6> QED BY <6>1, <6>2, <6>3 DEF Beats
        <5> QED BY <2>1, <5>1, <5>2
      <4> QED BY <2>1, <3>1, <4>1, <4>2 DEF BestOf
    <3>2. CASE ~Beats(ties, Score(new), start.score)
      <4>1. Better(b, new, ties, m, x) = start
        BY <2>2, <3>2 DEF Better, Beats
      <4> QED BY <2>1, <2>2, <3>2, <4>1 DEF BestOf
    <3> QED BY <3>1, <3>2
  <2>3. ASSUME NEW k \in hits(n),
               b = [score |-> score(k), name |-> rows[k].name],
               Beats(ties, score(k), start.score),
               \A j \in hits(n) :
                 \/ score(j) < score(k)
                 \/ score(j) = score(k) /\ (IF ties THEN j <= k ELSE k <= j)
        PROVE  BestOf(rows, n + 1, ties, m, x, start, Better(b, new, ties, m, x))
    <3>0. /\ score(k) \in Int /\ score(n + 1) \in Int /\ b.score = score(k) /\ k \in 1 .. n
          /\ \A j \in hits(n) : j \in 1 .. n /\ score(j) \in Int
      BY <1>1, <1>3, <2>3
    <3>1. CASE Beats(ties, score(n + 1), score(k))
      <4>1. Better(b, new, ties, m, x) = [score |-> score(n + 1), name |-> new.name]
        BY <1>5, <3>0, <3>1 DEF Better, Beats
      <4>2. Beats(ties, score(n + 1), start.score)
        <5> HIDE DEF hits, score
        <5> QED BY <2>3, <3>0, <3>1 DEF Beats
      <4>3. ASSUME NEW j \in hits(n + 1)
            PROVE  \/ score(j) < score(n + 1)
                   \/ score(j) = score(n + 1) /\ (IF ties THEN j <= n + 1 ELSE n + 1 <= j)
        <5> HIDE DEF hits, score
        <5>1. CASE j = n + 1
          BY <5>1, <1>1
        <5>2. CASE j \in hits(n)
          BY <5>2, <2>3, <3>0, <3>1 DEF Beats
        <5> QED BY <2>1, <5>1, <5>2
      <4> QED BY <2>1, <4>1, <4>2, <4>3 DEF BestOf
    <3>2. CASE ~Beats(ties, score(n + 1), score(k))
      <4>1. Better(b, new, ties, m, x) = b
        BY <3>0, <3>2 DEF Better, Beats
      <4>2. ASSUME NEW j \in hits(n + 1)
            PROVE  \/ score(j) < score(k)
                   \/ score(j) = score(k) /\ (IF ties THEN j <= k ELSE k <= j)
        <5> HIDE DEF hits, score
        <5>1. CASE j = n + 1
          BY <5>1, <3>0, <3>2 DEF Beats
        <5>2. CASE j \in hits(n)
          BY <5>2, <2>3
        <5> QED BY <2>1, <5>1, <5>2
      <4> QED BY <2>1, <2>3, <4>1, <4>2 DEF BestOf
    <3> QED BY <3>1, <3>2
  <2> QED BY <2>2, <2>3 DEF BestOf
<1> QED BY <1>4, <1>5

\* A whole pass.
LEMMA ScanRowsIsBest ==
    ASSUME NEW rows \in Seq(Row), NEW ties \in BOOLEAN, NEW m, NEW x,
           NEW start, start.score \in Int
    PROVE  BestOf(rows, Len(rows), ties, m, x, start, ScanRows(rows, ties, m, x, start))
<1>1. PICK pass :
        /\ pass = [i \in 0 .. Len(rows) |->
                     IF i = 0 THEN start ELSE Better(pass[i - 1], rows[i], ties, m, x)]
        /\ ScanRows(rows, ties, m, x, start) = pass[Len(rows)]
  BY PassExists
<1> DEFINE Good(n) == n <= Len(rows) => BestOf(rows, n, ties, m, x, start, pass[n])
           S == {n \in Nat : Good(n)}
<1>2. 0 \in S
  <2>1. pass[0] = start
    BY <1>1
  <2> QED BY <2>1 DEF BestOf
<1>3. ASSUME NEW n \in S PROVE n + 1 \in S
  <2>1. CASE n + 1 <= Len(rows)
    <3>1. pass[n + 1] = Better(pass[n], rows[n + 1], ties, m, x)
      BY <1>1, <2>1
    <3>2. n \in Nat /\ BestOf(rows, n, ties, m, x, start, pass[n])
      BY <2>1
    <3>3. BestOf(rows, n + 1, ties, m, x, start, Better(pass[n], rows[n + 1], ties, m, x))
      BY <2>1, <3>2, BestOfStep
    <3> QED BY <3>1, <3>2, <3>3
  <2>2. CASE ~(n + 1 <= Len(rows))
    BY <2>2
  <2> QED BY <2>1, <2>2
<1>4. S = Nat
  <2> HIDE DEF S
  <2>1. S \subseteq Nat
    BY DEF S
  <2> QED BY <1>2, <1>3, <2>1, NumbersByOnes
<1>5. Len(rows) \in S
  <2> HIDE DEF S
  <2> QED BY <1>4
<1>6. Good(Len(rows))
  BY <1>5
<1> QED BY <1>1, <1>6

\* The frame of an accepted credential is decoded to what was enrolled.
LEMMA UnlockIsDecoded ==
    ASSUME NEW press \in Presses, press.family = "VISION" => press.slot < IndexBase
    PROVE  DecodeLockCommand(UnlockFrame(press.family, press.method, press.slot)) =
             [type |-> "UNLOCK", method |-> press.method, index |-> press.slot]
<1> DEFINE byte == IF press.family = "ORIGINAL" THEN press.slot + IndexBase ELSE press.slot
           frame == UnlockFrame(press.family, press.method, press.slot)
<1>1. press.slot \in 0 .. 255 /\ press.family \in {"ORIGINAL", "VISION"}
  BY ConfigAssumption
<1>2. frame = FrameAction \o <<press.method, UnlockMarker, byte, 0>>
  BY DEF UnlockFrame
<1>3. /\ Len(frame) = 8 /\ frame[5] = press.method /\ frame[6] = 128 /\ frame[7] = byte
      /\ frame[1] = 15 /\ frame[2] = 78 /\ frame[3] = 1 /\ frame[4] = 3
  <2> HIDE DEF frame, byte
  <2> QED BY <1>2 DEF UnlockMarker, FrameAction
<1>4. SlotOfByte(byte) = press.slot
  BY <1>1 DEF SlotOfByte, IndexBase
<1>5. frame # FrameLock
  <2>1. FrameLock[6] = 0
    BY DEF FrameLock, FrameAction
  <2> HIDE DEF frame
  <2> QED BY <2>1, <1>3
<1>6. frame # FrameDoorbell
  <2>1. Len(FrameDoorbell) = 2
    BY DEF FrameDoorbell
  <2> HIDE DEF frame
  <2> QED BY <2>1, <1>3
<1>7. IsPrefix(FrameAction, frame)
  <2>1. FrameAction \in Seq(Int) /\ Len(FrameAction) = 4
        /\ FrameAction[1] = 15 /\ FrameAction[2] = 78 /\ FrameAction[3] = 1 /\ FrameAction[4] = 3
    BY DEF FrameAction
  <2>2. frame \in Seq(Int)
    <3>1. press.method \in Int /\ byte \in Int /\ UnlockMarker \in Int
      <4>1. press.method \in Int
        <5>1. press.method \in 0 .. 255
          BY ConfigAssumption
        <5> QED BY <5>1
      <4>2. press.slot \in Int /\ press.slot + 10 \in Int
        BY <1>1
      <4> QED BY <4>1, <4>2 DEF UnlockMarker, IndexBase
    <3>2. <<press.method, UnlockMarker, byte, 0>> \in Seq(Int)
      <4> HIDE DEF byte
      <4> QED BY <3>1
    <3> QED BY <1>2, <2>1, <3>2
  <2> HIDE DEF frame
  <2>3. /\ SubSeq(frame, 1, 4) \in Seq(Int) /\ SubSeq(FrameAction, 1, 4) \in Seq(Int)
        /\ Len(SubSeq(frame, 1, 4)) = 4 /\ Len(SubSeq(FrameAction, 1, 4)) = 4
        /\ \A i \in 1 .. 4 : SubSeq(frame, 1, 4)[i] = SubSeq(FrameAction, 1, 4)[i]
    BY <1>3, <2>1, <2>2
  <2>4. SubSeq(frame, 1, 4) = SubSeq(FrameAction, 1, 4)
    BY <2>3, SeqEqual
  <2> QED BY <1>3, <2>1, <2>4 DEF IsPrefix
<1>8. AsksToUnlock(frame)
  BY <1>3, <1>7 DEF AsksToUnlock, UnlockMarker
<1> HIDE DEF frame, byte
<1>9. DecodeLockCommand(frame) =
        [type |-> "UNLOCK", method |-> frame[5], index |-> SlotOfByte(frame[7])]
  BY <1>3, <1>5, <1>6, <1>8 DEF DecodeLockCommand
<1>10. frame = UnlockFrame(press.family, press.method, press.slot)
  BY DEF frame
<1> QED BY <1>3, <1>4, <1>9, <1>10

\* The order of the property is the order of the scores.
LEMMA SpecificIsScore ==
    \A a, b \in Row : MoreSpecific(a, b) <=> Score(a) > Score(b)
<1> SUFFICES ASSUME NEW a \in Row, NEW b \in Row
             PROVE  MoreSpecific(a, b) <=> Score(a) > Score(b)
  OBVIOUS
<1>1. a.index \in Int /\ b.index \in Int
  <2>1. MinInt16 \in Int /\ MaxInt16 \in Int
    BY DEF MinInt16, MaxInt16
  <2> QED BY <2>1 DEF Row
<1>2. CASE a.method = AnyMethod /\ b.method = AnyMethod
  BY <1>1, <1>2 DEF MoreSpecific, Score
<1>3. CASE a.method = AnyMethod /\ b.method # AnyMethod
  BY <1>1, <1>3 DEF MoreSpecific, Score
<1>4. CASE a.method # AnyMethod /\ b.method = AnyMethod
  BY <1>1, <1>4 DEF MoreSpecific, Score
<1>5. CASE a.method # AnyMethod /\ b.method # AnyMethod
  BY <1>1, <1>5 DEF MoreSpecific, Score
<1> QED BY <1>2, <1>3, <1>4, <1>5

Hits(list, m, x) == {k \in 1 .. Len(list) : Applies(list[k], m, x)}

\* Any row beats none.
LEMMA AnyBeatsNone ==
    /\ NoMatch.score \in Int /\ NoMatch.name = ""
    /\ \A s \in Nat : s > NoMatch.score /\ Beats(TRUE, s, NoMatch.score)
<1> DEFINE none == -1
<1>1. NoMatch.score = none /\ NoMatch.name = ""
  BY DEF NoMatch
<1>2. none \in Int /\ \A s \in Nat : s > none
  OBVIOUS
<1> HIDE DEF none
<1> QED BY <1>1, <1>2 DEF Beats

\* Both lists: lookup_user_ returns nobody, or the name of the last of the best
\* edited rows, or the name of the first of the best compiled rows.
LEMMA LookupIsBest ==
    ASSUME NEW web \in Seq(Row), NEW yaml \in Seq(Row), NEW m, NEW x
    PROVE  LET name == LookupUser(web, yaml, m, x)
           IN  \/ name = "" /\ Hits(web, m, x) = {} /\ Hits(yaml, m, x) = {}
               \/ \E k \in Hits(web, m, x) :
                     /\ name = web[k].name
                     /\ \A j \in Hits(web, m, x) :
                          \/ Score(web[j]) < Score(web[k])
                          \/ Score(web[j]) = Score(web[k]) /\ j <= k
                     /\ \A j \in Hits(yaml, m, x) : Score(yaml[j]) <= Score(web[k])
               \/ \E k \in Hits(yaml, m, x) :
                     /\ name = yaml[k].name
                     /\ \A j \in Hits(yaml, m, x) :
                          \/ Score(yaml[j]) < Score(yaml[k])
                          \/ Score(yaml[j]) = Score(yaml[k]) /\ k <= j
                     /\ \A j \in Hits(web, m, x) : Score(web[j]) < Score(yaml[k])
<1> DEFINE found == ScanRows(web, TRUE, m, x, NoMatch)
           last == ScanRows(yaml, FALSE, m, x, found)
<1>1. \A k \in Hits(web, m, x) : k \in Int /\ Score(web[k]) \in Nat
  BY ScoreRange DEF Hits
<1>2. \A k \in Hits(yaml, m, x) : k \in Int /\ Score(yaml[k]) \in Nat
  BY ScoreRange DEF Hits
<1>3. NoMatch.score \in Int /\ NoMatch.name = ""
  BY AnyBeatsNone
<1>4. BestOf(web, Len(web), TRUE, m, x, NoMatch, found)
  BY <1>3, ScanRowsIsBest
<1> HIDE DEF found
<1>5. \/ found = NoMatch /\ Hits(web, m, x) = {}
      \/ \E k \in Hits(web, m, x) :
            /\ found = [score |-> Score(web[k]), name |-> web[k].name]
            /\ \A j \in Hits(web, m, x) :
                 \/ Score(web[j]) < Score(web[k])
                 \/ Score(web[j]) = Score(web[k]) /\ j <= k
  <2>1. \A k \in Hits(web, m, x) : Beats(TRUE, Score(web[k]), NoMatch.score)
    BY <1>1, AnyBeatsNone
  <2> QED BY <1>4, <2>1 DEF BestOf, Hits
<1>6. found.score \in Int
  <2>1. CASE found = NoMatch
    BY <1>3, <2>1
  <2>2. ASSUME NEW k \in Hits(web, m, x),
               found = [score |-> Score(web[k]), name |-> web[k].name]
        PROVE  found.score \in Int
    BY <1>1, <2>2
  <2> QED BY <1>5, <2>1, <2>2
<1>7. BestOf(yaml, Len(yaml), FALSE, m, x, found, last)
  BY <1>6, ScanRowsIsBest
<1>8. LookupUser(web, yaml, m, x) = last.name
  BY DEF LookupUser, found
<1> HIDE DEF last
<1>9. \/ last = found /\ \A k \in Hits(yaml, m, x) : ~(Score(yaml[k]) > found.score)
      \/ \E k \in Hits(yaml, m, x) :
            /\ last = [score |-> Score(yaml[k]), name |-> yaml[k].name]
            /\ Score(yaml[k]) > found.score
            /\ \A j \in Hits(yaml, m, x) :
                 \/ Score(yaml[j]) < Score(yaml[k])
                 \/ Score(yaml[j]) = Score(yaml[k]) /\ k <= j
  BY <1>7 DEF BestOf, Beats, Hits
<1>10. ASSUME found = NoMatch, Hits(web, m, x) = {}
       PROVE  \/ last.name = "" /\ Hits(yaml, m, x) = {}
              \/ \E k \in Hits(yaml, m, x) :
                    /\ last.name = yaml[k].name
                    /\ \A j \in Hits(yaml, m, x) :
                         \/ Score(yaml[j]) < Score(yaml[k])
                         \/ Score(yaml[j]) = Score(yaml[k]) /\ k <= j
  <2>1. \A k \in Hits(yaml, m, x) : Score(yaml[k]) > found.score
    BY <1>2, <1>10, AnyBeatsNone
  <2>2. CASE last = found /\ \A k \in Hits(yaml, m, x) : ~(Score(yaml[k]) > found.score)
    <3>1. Hits(yaml, m, x) = {}
      BY <2>1, <2>2
    <3> QED BY <1>3, <1>10, <2>2, <3>1
  <2>3. ASSUME NEW k \in Hits(yaml, m, x),
               last = [score |-> Score(yaml[k]), name |-> yaml[k].name],
               \A j \in Hits(yaml, m, x) :
                 \/ Score(yaml[j]) < Score(yaml[k])
                 \/ Score(yaml[j]) = Score(yaml[k]) /\ k <= j
        PROVE  \E l \in Hits(yaml, m, x) :
                 /\ last.name = yaml[l].name
                 /\ \A j \in Hits(yaml, m, x) :
                      \/ Score(yaml[j]) < Score(yaml[l])
                      \/ Score(yaml[j]) = Score(yaml[l]) /\ l <= j
    <3>1. last.name = yaml[k].name
      BY <2>3
    <3> QED BY <2>3, <3>1
  <2> QED BY <1>9, <2>2, <2>3
<1>11. ASSUME NEW k \in Hits(web, m, x),
              found = [score |-> Score(web[k]), name |-> web[k].name],
              \A j \in Hits(web, m, x) :
                \/ Score(web[j]) < Score(web[k])
                \/ Score(web[j]) = Score(web[k]) /\ j <= k
       PROVE  \/ /\ last.name = web[k].name
                 /\ \A j \in Hits(yaml, m, x) : Score(yaml[j]) <= Score(web[k])
              \/ \E l \in Hits(yaml, m, x) :
                    /\ last.name = yaml[l].name
                    /\ \A j \in Hits(yaml, m, x) :
                         \/ Score(yaml[j]) < Score(yaml[l])
                         \/ Score(yaml[j]) = Score(yaml[l]) /\ l <= j
                    /\ \A j \in Hits(web, m, x) : Score(web[j]) < Score(yaml[l])
  <2>1. found.score = Score(web[k]) /\ found.name = web[k].name
    BY <1>11
  <2>2. CASE last = found /\ \A j \in Hits(yaml, m, x) : ~(Score(yaml[j]) > found.score)
    BY <1>1, <1>2, <2>1, <2>2
  <2>3. ASSUME NEW l \in Hits(yaml, m, x),
               last = [score |-> Score(yaml[l]), name |-> yaml[l].name],
               Score(yaml[l]) > found.score,
               \A j \in Hits(yaml, m, x) :
                 \/ Score(yaml[j]) < Score(yaml[l])
                 \/ Score(yaml[j]) = Score(yaml[l]) /\ l <= j
        PROVE  last.name = yaml[l].name
               /\ \A j \in Hits(web, m, x) : Score(web[j]) < Score(yaml[l])
    BY <1>1, <1>2, <1>11, <2>1, <2>3
  <2> QED BY <1>9, <2>2, <2>3
<1> QED BY <1>5, <1>8, <1>10, <1>11

\* The property's one list, and where the rows of the two lists are in it.
AsOne(yaml, web) == Reverse(yaml) \o web
WebAt(yaml, k) == Len(yaml) + k
YamlAt(yaml, k) == Len(yaml) + 1 - k

\* The two lists as one: the compiled rows from last to first, then the edited ones.
LEMMA RowsInOrder ==
    ASSUME NEW web \in Seq(Row), NEW yaml \in Seq(Row), NEW m, NEW x,
           NEW rows, rows = AsOne(yaml, web)
    PROVE  /\ rows \in Seq(Row)
           /\ \A k \in Hits(web, m, x) :
                WebAt(yaml, k) \in Hits(rows, m, x) /\ rows[WebAt(yaml, k)] = web[k]
           /\ \A k \in Hits(yaml, m, x) :
                YamlAt(yaml, k) \in Hits(rows, m, x) /\ rows[YamlAt(yaml, k)] = yaml[k]
           /\ \A i \in Hits(rows, m, x) :
                \/ \E k \in Hits(web, m, x) : i = WebAt(yaml, k)
                \/ \E k \in Hits(yaml, m, x) : i = YamlAt(yaml, k)
<1> DEFINE back == Reverse(yaml)
           n == Len(yaml)
           hits == Hits(rows, m, x)
<1>1. n \in Nat /\ Len(web) \in Nat
  OBVIOUS
<1>2. back \in Seq(Row) /\ Len(back) = n /\ \A i \in 1 .. n : back[i] = yaml[n - i + 1]
  BY DEF Reverse
<1> HIDE DEF back, n
<1>3. /\ rows \in Seq(Row) /\ Len(rows) = n + Len(web) /\ DOMAIN rows = 1 .. n + Len(web)
      /\ \A i \in 1 .. n : rows[i] = back[i]
      /\ \A k \in 1 .. Len(web) : rows[n + k] = web[k]
  <2>1. /\ rows \in Seq(Row) /\ Len(rows) = n + Len(web)
        /\ \A i \in 1 .. n + Len(web) : rows[i] = IF i <= n THEN back[i] ELSE web[i - n]
    <3>1. rows = back \o web
      BY DEF back, AsOne
    <3> QED BY <1>2, <3>1, ConcatProperties
  <2>2. DOMAIN rows = 1 .. n + Len(web)
    BY <2>1
  <2>3. ASSUME NEW k \in 1 .. Len(web) PROVE rows[n + k] = web[k]
    <3>1. n + k \in 1 .. n + Len(web) /\ ~(n + k <= n) /\ (n + k) - n = k
      BY <1>1
    <3> QED BY <2>1, <3>1
  <2>4. ASSUME NEW i \in 1 .. n PROVE rows[i] = back[i]
    BY <1>1, <2>1
  <2> QED BY <2>1, <2>2, <2>3, <2>4
<1>4. \A k \in 1 .. Len(web) : n + k \in DOMAIN rows
  BY <1>1, <1>3
<1>5. \A k \in 1 .. n : n + 1 - k \in 1 .. n /\ n + 1 - k \in DOMAIN rows
                       /\ rows[n + 1 - k] = yaml[k]
  <2> TAKE k \in 1 .. n
  <2>1. n + 1 - k \in 1 .. n /\ n - (n + 1 - k) + 1 = k
    BY <1>1
  <2> QED BY <1>1, <1>2, <1>3, <2>1
<1>6. \A i \in DOMAIN rows :
        \/ \E k \in 1 .. Len(web) : i = n + k
        \/ \E k \in 1 .. n : i = n + 1 - k
  <2> TAKE i \in DOMAIN rows
  <2>1. CASE i > n
    <3>1. i - n \in 1 .. Len(web) /\ i = n + (i - n)
      BY <1>1, <1>3, <2>1
    <3> QED BY <3>1
  <2>2. CASE ~(i > n)
    <3>1. n + 1 - i \in 1 .. n /\ i = n + 1 - (n + 1 - i)
      BY <1>1, <1>3, <2>2
    <3> QED BY <3>1
  <2> QED BY <2>1, <2>2
<1>7. \A k \in Hits(web, m, x) : n + k \in hits /\ rows[n + k] = web[k]
  BY <1>3, <1>4 DEF Hits
<1>8. \A k \in Hits(yaml, m, x) : n + 1 - k \in hits /\ rows[n + 1 - k] = yaml[k]
  <2> TAKE k \in Hits(yaml, m, x)
  <2>1. k \in 1 .. n /\ Applies(yaml[k], m, x)
    BY DEF Hits, n
  <2>2. n + 1 - k \in DOMAIN rows /\ rows[n + 1 - k] = yaml[k]
    BY <1>5, <2>1
  <2>3. n + 1 - k \in 1 .. Len(rows)
    BY <1>3, <2>2
  <2> QED BY <2>1, <2>2, <2>3 DEF Hits
<1>9. \A i \in hits :
        \/ \E k \in Hits(web, m, x) : i = n + k
        \/ \E k \in Hits(yaml, m, x) : i = n + 1 - k
  <2> TAKE i \in hits
  <2>0. i \in DOMAIN rows /\ Applies(rows[i], m, x)
    BY <1>3 DEF Hits
  <2> HIDE DEF hits
  <2>1. CASE \E k \in 1 .. Len(web) : i = n + k
    BY <1>3, <2>0, <2>1 DEF Hits
  <2>2. CASE \E k \in 1 .. n : i = n + 1 - k
    BY <1>5, <2>0, <2>2 DEF Hits, n
  <2> QED BY <1>6, <2>0, <2>1, <2>2
<1> QED BY <1>3, <1>7, <1>8, <1>9 DEF n, WebAt, YamlAt

\* Whoever opened is reported under the name that the two lists give, whatever
\* was edited so far.
LEMMA OpenerNamed ==
    ASSUME users \in Seq(Row)
    PROVE  OpenerIsNamed
<1> SUFFICES ASSUME NEW press \in {p \in Presses : p.family = "VISION" => p.slot < IndexBase}
             PROVE
        LET frame == UnlockFrame(press.family, press.method, press.slot)
            cmd == DecodeLockCommand(frame)
            name == LookupUser(users, YamlUsers, cmd.method, cmd.index)
            rows == Reverse(YamlUsers) \o users
            hits == {i \in DOMAIN rows : Names(rows[i], press)}
        IN  /\ cmd.type = "UNLOCK"
            /\ hits = {} => name = ""
            /\ hits # {} => \E i \in hits :
                /\ rows[i].name = name
                /\ \A j \in hits \ {i} :
                    \/ MoreSpecific(rows[i], rows[j])
                    \/ ~MoreSpecific(rows[j], rows[i]) /\ j < i
  BY DEF OpenerIsNamed
<1> DEFINE m == press.method
           x == press.slot
           cmd == DecodeLockCommand(UnlockFrame(press.family, m, x))
           name == LookupUser(users, YamlUsers, cmd.method, cmd.index)
           rows == Reverse(YamlUsers) \o users
           hits == {i \in DOMAIN rows : Names(rows[i], press)}
           n == Len(YamlUsers)
           Wins(i) == /\ rows[i].name = name
                      /\ \A j \in hits \ {i} : \/ Score(rows[i]) > Score(rows[j])
                                               \/ ~(Score(rows[j]) > Score(rows[i])) /\ j < i
<1>1. cmd = [type |-> "UNLOCK", method |-> m, index |-> x]
  <2>1. press.family = "VISION" => press.slot < IndexBase
    OBVIOUS
  <2> QED BY <2>1, UnlockIsDecoded
<1>2. YamlUsers \in Seq(Row) /\ n \in Nat
  BY ConfigAssumption
<1> HIDE DEF cmd
<1>3. cmd.type = "UNLOCK" /\ name = LookupUser(users, YamlUsers, m, x)
  BY <1>1
<1> HIDE DEF name
<1>4. hits = Hits(rows, m, x)
  <2>1. rows \in Seq(Row)
    BY <1>2 DEF Reverse
  <2>2. DOMAIN rows = 1 .. Len(rows)
    <3> HIDE DEF rows
    <3> QED BY <2>1
  <2> QED BY <2>2 DEF Hits, Names, Applies
<1>5. /\ rows \in Seq(Row)
      /\ \A k \in Hits(users, m, x) :
           WebAt(YamlUsers, k) \in hits /\ rows[WebAt(YamlUsers, k)] = users[k]
      /\ \A k \in Hits(YamlUsers, m, x) :
           YamlAt(YamlUsers, k) \in hits /\ rows[YamlAt(YamlUsers, k)] = YamlUsers[k]
      /\ \A i \in hits :
           \/ \E k \in Hits(users, m, x) : i = WebAt(YamlUsers, k)
           \/ \E k \in Hits(YamlUsers, m, x) : i = YamlAt(YamlUsers, k)
  <2>1. rows = AsOne(YamlUsers, users)
    BY DEF AsOne
  <2> HIDE DEF rows, hits, Wins, m, x, n
  <2> QED BY <1>2, <1>4, <2>1, RowsInOrder
<1>6. \A i \in hits : rows[i] \in Row
  BY <1>5
<1> HIDE DEF rows, hits, n
<1>7. \A k \in Hits(users, m, x) : k \in 1 .. Len(users) /\ Score(users[k]) \in Int
  BY ScoreRange DEF Hits
<1>8. \A k \in Hits(YamlUsers, m, x) : k \in 1 .. n /\ Score(YamlUsers[k]) \in Int
  BY <1>2, ScoreRange DEF Hits, n
<1>9. CASE name = "" /\ Hits(users, m, x) = {} /\ Hits(YamlUsers, m, x) = {}
  <2>1. hits = {}
    BY <1>5, <1>9
  <2> QED BY <1>3, <1>9, <2>1 DEF cmd, name, rows, hits
<1>10. ASSUME NEW k \in Hits(users, m, x), name = users[k].name,
              \A j \in Hits(users, m, x) :
                \/ Score(users[j]) < Score(users[k])
                \/ Score(users[j]) = Score(users[k]) /\ j <= k,
              \A j \in Hits(YamlUsers, m, x) : Score(YamlUsers[j]) <= Score(users[k])
       PROVE  \E i \in hits : Wins(i)
  <2>1. n + k \in hits /\ rows[n + k] = users[k]
    BY <1>5 DEF WebAt, n
  <2>2. ASSUME NEW j \in hits \ {n + k}
        PROVE  \/ Score(rows[n + k]) > Score(rows[j])
               \/ ~(Score(rows[j]) > Score(rows[n + k])) /\ j < n + k
    <3>1. ASSUME NEW l \in Hits(users, m, x), j = n + l
          PROVE  \/ Score(rows[n + k]) > Score(rows[j])
                 \/ ~(Score(rows[j]) > Score(rows[n + k])) /\ j < n + k
      BY <1>2, <1>5, <1>7, <1>10, <3>1 DEF WebAt, n
    <3>2. ASSUME NEW l \in Hits(YamlUsers, m, x), j = n + 1 - l
          PROVE  \/ Score(rows[n + k]) > Score(rows[j])
                 \/ ~(Score(rows[j]) > Score(rows[n + k])) /\ j < n + k
      BY <1>2, <1>5, <1>7, <1>8, <1>10, <3>2 DEF WebAt, YamlAt, n
    <3> QED BY <1>5, <3>1, <3>2 DEF WebAt, YamlAt, n
  <2> QED BY <1>10, <2>1, <2>2
<1>11. ASSUME NEW k \in Hits(YamlUsers, m, x), name = YamlUsers[k].name,
              \A j \in Hits(YamlUsers, m, x) :
                \/ Score(YamlUsers[j]) < Score(YamlUsers[k])
                \/ Score(YamlUsers[j]) = Score(YamlUsers[k]) /\ k <= j,
              \A j \in Hits(users, m, x) : Score(users[j]) < Score(YamlUsers[k])
       PROVE  \E i \in hits : Wins(i)
  <2>1. n + 1 - k \in hits /\ rows[n + 1 - k] = YamlUsers[k]
    BY <1>5 DEF YamlAt, n
  <2>2. ASSUME NEW j \in hits \ {n + 1 - k}
        PROVE  \/ Score(rows[n + 1 - k]) > Score(rows[j])
               \/ ~(Score(rows[j]) > Score(rows[n + 1 - k])) /\ j < n + 1 - k
    <3>1. ASSUME NEW l \in Hits(users, m, x), j = n + l
          PROVE  Score(rows[n + 1 - k]) > Score(rows[j])
      BY <1>5, <1>7, <1>8, <1>11, <3>1 DEF WebAt, YamlAt, n
    <3>2. ASSUME NEW l \in Hits(YamlUsers, m, x), j = n + 1 - l
          PROVE  \/ Score(rows[n + 1 - k]) > Score(rows[j])
                 \/ ~(Score(rows[j]) > Score(rows[n + 1 - k])) /\ j < n + 1 - k
      BY <1>2, <1>5, <1>8, <1>11, <3>2 DEF YamlAt, n
    <3> QED BY <1>5, <3>1, <3>2 DEF WebAt, YamlAt, n
  <2> QED BY <1>11, <2>1, <2>2
<1>12. ASSUME NEW i \in hits, Wins(i)
       PROVE  /\ rows[i].name = name
              /\ \A j \in hits \ {i} : \/ MoreSpecific(rows[i], rows[j])
                                       \/ ~MoreSpecific(rows[j], rows[i]) /\ j < i
  BY <1>6, <1>12, SpecificIsScore
<1>13. CASE \E i \in hits : Wins(i)
  <2>1. PICK i \in hits : Wins(i)
    BY <1>13
  <2> HIDE DEF Wins
  <2>2. /\ rows[i].name = name
        /\ \A j \in hits \ {i} : \/ MoreSpecific(rows[i], rows[j])
                                 \/ ~MoreSpecific(rows[j], rows[i]) /\ j < i
    BY <1>12, <2>1
  <2> QED BY <1>3, <2>2 DEF cmd, name, rows, hits
<1> HIDE DEF Wins
<1>14. \/ name = "" /\ Hits(users, m, x) = {} /\ Hits(YamlUsers, m, x) = {}
       \/ \E k \in Hits(users, m, x) :
             /\ name = users[k].name
             /\ \A j \in Hits(users, m, x) :
                  \/ Score(users[j]) < Score(users[k])
                  \/ Score(users[j]) = Score(users[k]) /\ j <= k
             /\ \A j \in Hits(YamlUsers, m, x) : Score(YamlUsers[j]) <= Score(users[k])
       \/ \E k \in Hits(YamlUsers, m, x) :
             /\ name = YamlUsers[k].name
             /\ \A j \in Hits(YamlUsers, m, x) :
                  \/ Score(YamlUsers[j]) < Score(YamlUsers[k])
                  \/ Score(YamlUsers[j]) = Score(YamlUsers[k]) /\ k <= j
             /\ \A j \in Hits(users, m, x) : Score(users[j]) < Score(YamlUsers[k])
  BY <1>2, <1>3, LookupIsBest
<1> QED BY <1>9, <1>10, <1>11, <1>13, <1>14

\* Every accepted credential, of both families, is reported under the name that
\* the lists give it, after any sequence of edits, saves and reboots.
THEOREM OpenerHasName == Spec => []OpenerIsNamed
<1>1. ConfigInv => OpenerIsNamed
  <2> SUFFICES ASSUME ConfigInv PROVE OpenerIsNamed
    OBVIOUS
  <2>1. users \in Seq(Row)
    BY DEF ConfigInv, TypeOK, UserList
  <2> QED BY <2>1, OpenerNamed
<1> QED BY <1>1, ConfigInvariant, PTL
=============================================================================
