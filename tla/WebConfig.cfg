SPECIFICATION Spec
CONSTANTS
    UserPosts <- MCUserPosts
    SettingPosts <- MCSettingPosts
    YamlUsers <- MCYamlUsers
    YamlSettings <- MCYamlSettings
    MaxUsers = 2
    Presses <- MCPresses
INVARIANTS
    UsersKept
    SettingsKept
    OpenerIsNamed
