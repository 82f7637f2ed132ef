----------------------------- MODULE MCWebConfig -----------------------------
(* Instance of WebConfig for TLC: lists that overlap, tie and overflow, and   *)
(* requests at both ends of the ranges.                                       *)
EXTENDS WebConfig

R(method, index, name) == [method |-> method, index |-> index, name |-> name]
MCUserPosts == {
    <<R("pin", 0, "ann"), R("any", -1, "guest")>>,
    <<R("any", 0, "bob"), R("pin", -1, ""), R("face", 0, "eve"), R("face", 0, "ann")>>,
    <<R("unknown", 3, "tag"), R("pin", -1, "eve"), R("any", 1, "bob")>>}
MCYamlUsers ==
    <<[method |-> 4, index |-> 0, name |-> "yaml"],
      [method |-> 24, index |-> -1, name |-> "yamlface"],
      [method |-> 24, index |-> -1, name |-> "never"]>>
MCPresses == [family : {"ORIGINAL", "VISION"}, method : {0, 4, 8, 24}, slot : {0, 1, 3, 9, 10, 99}]

Post(interval, gap, scan) == [interval |-> interval, gap |-> gap, scan |-> scan]
MCSettingPosts == {Post({0}, {61}, {FALSE}), Post({100000}, {60}, {}), Post({}, {}, {TRUE}),
                   Post({30}, {}, {})}
MCYamlSettings == [interval |-> 900, gap |-> 90, scan |-> TRUE]
=============================================================================
