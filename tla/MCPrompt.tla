------------------------------- MODULE MCPrompt -------------------------------
(* Two devices, three files, a menu of two images.  "ro" is a prefix of    *)
(* "root", and the second image names its device.                          *)
EXTENDS Prompt

Root == <<<<"r", "o", "o", "t">>, "a">>
OtherRoot == <<<<"r", "o", "o", "t">>, "b">>
Ro == <<<<"r", "o">>, "">>
Single == <<<<"s">>, "">>

MC_Config == <<
    [dev |-> None, file |-> "old", device |-> None, root |-> <<Root>>,
     append |-> <<Single, Ro>>, cmds |-> <<>>],
    [dev |-> "sdb", file |-> "new", device |-> None, root |-> <<>>, append |-> <<Ro, Single>>,
     cmds |-> <<[op |-> "set", var |-> "BOOT_STRING", value |-> <<Single>>]>>] >>

MC_ConfigCmds == <<[op |-> "unset", var |-> "AUTOBOOT_TIMEOUT"]>>
MC_Timeouts == {-1, 0, 2}
MC_Typed == {<<>>, <<OtherRoot>>, <<Ro>>}

\* The end of an earlier word, one that begins with its "=", and others.
MC_Leftovers == {<<<<<<"r">>, "">>>>, <<<<<<"t">>, "a">>, <<<<>>, "a">>>>}

MC_Length == [f \in {"old", "new", "exact", "sda", "sdb", Garbled, None} |->
                IF f = "exact" THEN "=" ELSE IF f = Garbled THEN ">" ELSE "<"]

Boot(file, string) == [op |-> "boot", dev |-> "sda", file |-> file, string |-> string]
MC_Lines == {
    <<Boot("old", <<Single>>)>>, <<Boot("new", None), [op |-> "config"]>>,
    <<Boot("exact", None)>>, <<[op |-> "config"]>>,
    <<[op |-> "unset", var |-> "BOOT_STRING"], Boot("old", <<Root, Ro, Single>>)>>,
    <<[op |-> "set", var |-> "AUTOBOOT", value |-> "1"], [op |-> "other"]>> }

MC_Args == { [known |-> TRUE, cmds |-> <<Boot("old", None)>>],
             [known |-> FALSE, cmds |-> <<[op |-> "config"]>>] }

Environment(auto, file, string, timeout) ==
    [AUTOBOOT |-> auto, BOOT_DEV |-> "sda", BOOT_FILE |-> file,
     BOOT_STRING |-> string, AUTOBOOT_TIMEOUT |-> timeout]
MC_Envs == {
    Environment(None, None, None, None), Environment("1", "old", None, -1),
    Environment("1", "new", <<Root>>, 2), Environment(None, "old", <<Single>>, None) }
===============================================================================
