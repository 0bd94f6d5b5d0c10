-------------------------------- MODULE Prompt --------------------------------
(***************************************************************************)
(* What MILO boots, and when: the start of milo() with the reboot block    *)
(* (hwrpb.c), the countdown and autoboot, the command loop, and the menu   *)
(* of /etc/milo.conf (milo.c).  The reboot block lies in memory and        *)
(* survives a restart, though not the loss of power; it is what            *)
(* "shutdown -r" boots from.  The menu is parsed in place, so that booting *)
(* an image changes the text it was described by.                          *)
(***************************************************************************)
EXTENDS Integers, Sequences, SequencesExt

CONSTANTS
    None,           \* a null pointer
    Lines,          \* command lines: sequences of commands, split at ';'
    Args,           \* what the ARC console may pass: such a line, and whether
                    \* it comes under a name MILO knows
    Envs,           \* environments found at power-on
    Config,         \* the images of the configuration file
    ConfigCmds,     \* commands it gives before the first image
    ConfigDev,      \* the device it is on
    ConfigTimeouts, \* timeouts it may give, in seconds, -1 for none
    Typed,          \* options a user may type behind a label
    Leftovers,      \* words that may lie behind the text of the options, where
                    \* kmalloc handed out a freed block (REUSE_MEMORY), or <<>>
    Length,         \* of a file name against boot_filename: <, = or > 32
    RebootTimeout,  \* 30
    MaxString,      \* options that fit boot_string
    MaxRestarts     \* bound

Garbled == "garbled"
Junk == <<<<"?">>, "?">>        \* an option nobody gave
Fresh == [valid |-> FALSE, reboot |-> FALSE, console |-> FALSE,
          dev |-> None, file |-> None, string |-> <<>>]
Causes == {"reboot", "autoboot", "command", "menu"}
Request(dev, file, string) == [dev |-> dev, file |-> file, string |-> string]
NoRequest == Request(None, None, None)
NoArgs == [known |-> TRUE, cmds |-> <<>>]
Options ==
    UNION ({Range(Config[k].root) \cup Range(Config[k].append) : k \in DOMAIN Config}
           \cup {Range(words) : words \in Typed \cup Leftovers})

ASSUME PromptAssumption ==
    /\ RebootTimeout \in Nat \ {0} /\ MaxString \in Nat /\ MaxRestarts \in Nat
    /\ ConfigTimeouts \subseteq Nat \cup {-1}
    /\ Config \in Seq(Range(Config)) /\ Config # <<>>
    /\ \A k \in DOMAIN Config :
          Config[k].root \in Seq(Options) /\ Config[k].append \in Seq(Options)
    /\ Typed \cup Leftovers \subseteq Seq(Options) /\ None \notin Seq(Options \cup {Junk})
    /\ \A c \in Range(ConfigCmds) \cup UNION {Range(Config[k].cmds) : k \in DOMAIN Config} :
          c.op \in {"set", "unset", "other"}

VARIABLES
    env,            \* environment variables
    block,          \* the reboot block
    arc,            \* the console's command, in the zero page
    pc,             \* start, run (a command line), countdown, boot, menu or linux
    pending, then,  \* the rest of the command line, and what comes after it
    left,           \* seconds of the countdown
    cause, request, \* why and what is being booted
    again,          \* images of this menu tried before
    choice,         \* history: the image and the options chosen, whether it was
                    \* tried before, and what lay behind the options' text
    booted,         \* history: what was last handed to Linux
    touched,        \* history: a key was pressed since the start
    restarts

history == <<choice, booted, restarts>>
vars == <<env, block, arc, pc, pending, then, left, cause, request, again, touched, history>>

-----------------------------------------------------------------------------
(* The text of a boot.                                                     *)

\* boot_cmd takes NULL for an empty string.
Text(string) == IF string = None THEN <<>> ELSE string

Name(option) == option[1]

\* Mutant: compares over the length of the old option's name.
Matches_Old(new, old) == IsPrefix(Name(old), Name(new))

\* boot_config's loop: an option replaces the first one its own name is a
\* prefix of (strncmp over the length of the new name).
Matches(new, old) == IsPrefix(Name(new), Name(old))
Added(options, o) ==
    IF \E k \in DOMAIN options : Matches(o, options[k])
    THEN [options EXCEPT ![CHOOSE k \in DOMAIN options :
             Matches(o, options[k]) /\ \A j \in 1 .. (k - 1) : ~Matches(o, options[j])] = o]
    ELSE Append(options, o)
Merged(given) ==
    LET merged[k \in 0 .. Len(given)] ==
            IF k = 0 THEN <<>> ELSE Added(merged[k - 1], given[k])
    IN  merged[Len(given)]

Given(image, typed) == image.root \o image.append \o typed

\* The scan goes on behind the end of a text that ends in a word, over the
\* words that lie there; where an option typed last is not followed by a
\* space.  A cleared block holds none.
Scanned(typed, words) == IF typed = <<>> THEN <<>> ELSE words

\* What the code passes on.  options[] has room for the options that were
\* given (for the last one because kmalloc rounds up); an entry behind them
\* may be lost to what is put there next.
BootStrings(image, typed, words) ==
    LET given == Given(image, typed)
        m == Merged(given \o words)
    IN  IF m = <<>> THEN {None}
        ELSE { [p \in DOMAIN m |-> IF p \in lost THEN Junk ELSE m[p]] :
               lost \in SUBSET {p \in DOMAIN m : p > Len(given)} }

\* Mutant: a boot without a string leaves the last one in the block.
StoredString_Kept(r) == IF r.string = None THEN block.string ELSE r.string

\* The fields of the reboot block hold 32 and 64 bytes without a final
\* zero: a longer name runs into the string, a longer string into the
\* signature.
StoredFile(r) ==
    IF Length[r.file] = "<" \/ (Length[r.file] = "=" /\ Text(r.string) = <<>>)
    THEN r.file ELSE Garbled
StoredString(r) ==
    IF Len(Text(r.string)) <= MaxString THEN Text(r.string)
    ELSE SubSeq(r.string, 1, MaxString) \o <<Junk>>

\* The image's own text "dev:file" is cut at the colon by its first boot.
ImageRequest(k, string) ==
    LET image == Config[k]
        default == IF image.device = None THEN ConfigDev ELSE image.device
    IN  CASE image.dev = None -> Request(default, image.file, string)
          [] image.dev # None /\ k \notin again -> Request(image.dev, image.file, string)
          [] OTHER -> Request(default, image.dev, string)
-----------------------------------------------------------------------------
Init ==
    /\ env \in Envs
    /\ block = Fresh /\ arc \in Args \cup {NoArgs}
    /\ pc = "start" /\ pending = <<>> /\ then = "prompt" /\ left = 0
    /\ cause = "command" /\ request = NoRequest /\ again = {}
    /\ choice = <<>> /\ booted = NoRequest /\ touched = FALSE /\ restarts = 0

\* do_timeout: counts from t, or does nothing if t is not positive.
do_timeout(t, why) ==
    /\ cause' = why
    /\ left' = IF t > 0 THEN t ELSE 0
    /\ pc' = "countdown"

\* setup_boot_arguments: the block is kept if it is valid, else it is new
\* and says whether the console passed arguments.
setup_boot_arguments ==
    /\ block' = IF block.valid THEN block
                ELSE [Fresh EXCEPT !.valid = TRUE, !.console = (arc # NoArgs)]
    /\ arc' = NoArgs

\* The start of milo: reboot, or the console's command and autoboot.  A
\* command passed under a name that is not known waits a second for a key
\* to drop it.
Start ==
    /\ pc = "start"
    /\ setup_boot_arguments
    /\ \/ /\ block'.reboot
          /\ request' = Request(block.dev, block.file, block.string)
          /\ do_timeout(RebootTimeout, "reboot")
          /\ touched' = FALSE /\ UNCHANGED <<pending, then>>
       \/ /\ ~block'.reboot
          /\ pc' = "run" /\ then' = "autoboot"
          /\ touched' \in {FALSE, ~block.valid /\ ~arc.known}
          /\ pending' = IF ~block.valid /\ ~touched' THEN arc.cmds ELSE <<>>
          /\ UNCHANGED <<left, cause, request>>
    /\ UNCHANGED <<env, again, history>>

CanAutoboot(e) == e.AUTOBOOT # None /\ e.BOOT_DEV # None /\ e.BOOT_FILE # None

autoboot ==
    /\ pc = "run" /\ pending = <<>> /\ then = "autoboot"
    /\ then' = "prompt"
    /\ IF CanAutoboot(env)
       THEN /\ request' = Request(env.BOOT_DEV, env.BOOT_FILE, env.BOOT_STRING)
            /\ do_timeout(IF env.AUTOBOOT_TIMEOUT = None THEN 0 ELSE env.AUTOBOOT_TIMEOUT, "autoboot")
       ELSE UNCHANGED <<pc, left, cause, request>>
    /\ UNCHANGED <<env, block, arc, pending, again, touched, history>>

\* A second of the countdown passes without a key.
Second ==
    /\ pc = "countdown" /\ left > 0
    /\ left' = left - 1
    /\ UNCHANGED <<env, block, arc, pc, pending, then, cause, request, again, touched, history>>

\* A key ends it: ESC boots at once, any other means not to boot.
KeyPressed ==
    /\ pc = "countdown" /\ left > 0
    /\ left' = 0 /\ touched' = TRUE
    /\ UNCHANGED pc \/ pc' = IF cause = "menu" THEN "menu" ELSE "run"
    /\ UNCHANGED <<env, block, arc, pending, then, cause, request, again, history>>

\* Mutant: the countdown's end counts as a key.
Expired_Interactive == pc = "countdown" /\ left = 0 /\ cause # "menu" /\ pc' = "run"
Expired == pc = "countdown" /\ left = 0 /\ cause # "menu" /\ pc' = "boot"

CountdownEnds ==
    /\ Expired
    /\ UNCHANGED <<env, block, arc, pending, then, left, cause, request, again, touched, history>>

-----------------------------------------------------------------------------
(* The command line and the menu.                                          *)

\* setenv_parse and unsetenv_parse, as far as booting reads variables.
Effect(e, c) ==
    CASE c.op = "set" -> [e EXCEPT ![c.var] = c.value]
      [] c.op = "unset" -> [e EXCEPT ![c.var] = None]
      [] OTHER -> e

\* A line is read at the prompt; kbd_gets waits for ever.
ReadLine ==
    /\ pc = "run" /\ pending = <<>> /\ then = "prompt"
    /\ pending' \in Lines /\ touched' = TRUE
    /\ UNCHANGED <<env, block, arc, pc, then, left, cause, request, again, history>>

\* boot_parse with a file.
boot_parse(c) ==
    /\ request' = Request(c.dev, c.file, IF c.string = None THEN env.BOOT_STRING ELSE c.string)
    /\ cause' = "command" /\ pc' = "boot"
    /\ UNCHANGED <<env, left, again>>

\* boot_parse without one: the configuration file is read, its own commands
\* run, and the menu opened, perhaps after its countdown.  Or the file is
\* missing or wrong, before or behind those commands.
OpenMenu ==
    /\ \/ /\ env' = FoldLeft(Effect, env, ConfigCmds) /\ again' = {}
          /\ \E t \in ConfigTimeouts :
              \/ t >= 0 /\ do_timeout(t, "menu")
              \/ t < 0 /\ pc' = "menu" /\ UNCHANGED <<left, cause>>
       \/ /\ env' \in {env, FoldLeft(Effect, env, ConfigCmds)}
          /\ UNCHANGED <<pc, left, cause, again>>
    /\ UNCHANGED request

\* The next command of the line; other commands change variables, or
\* nothing that matters here.
parse_command ==
    /\ pc = "run" /\ pending # <<>>
    /\ pending' = Tail(pending)
    /\ LET c == Head(pending) IN
        \/ c.op = "boot" /\ boot_parse(c)
        \/ c.op = "config" /\ OpenMenu
        \/ /\ c.op \notin {"boot", "config"} /\ env' = Effect(env, c)
           /\ UNCHANGED <<pc, left, cause, request, again>>
    /\ UNCHANGED <<block, arc, then, touched, history>>

\* boot_config: the image's commands, then the boot.  The text of the
\* commands is cut up by their first execution.
boot_config(k, typed) ==
    /\ env' = IF k \in again THEN env ELSE FoldLeft(Effect, env, Config[k].cmds)
    /\ \E words \in Leftovers \cup {<<>>} :
        /\ \E string \in BootStrings(Config[k], typed, Scanned(typed, words)) :
               request' = ImageRequest(k, string)
        /\ choice' = <<k, typed, k \in again, Scanned(typed, words)>>
    /\ again' = again \cup {k}
    /\ cause' = "menu" /\ pc' = "boot"

\* boot_via_config: a label is typed, or the first one is taken when its
\* countdown ends.
boot_via_config ==
    /\ \/ /\ pc = "menu" /\ touched' = TRUE
          /\ \E k \in DOMAIN Config, typed \in Typed : boot_config(k, typed)
       \/ /\ pc = "countdown" /\ cause = "menu" /\ left = 0 /\ UNCHANGED touched
          /\ boot_config(1, <<>>)
    /\ UNCHANGED <<block, arc, pending, then, left, booted, restarts>>

LeaveMenu ==
    /\ pc = "menu"
    /\ pc' = "run" /\ again' = {} /\ touched' = TRUE
    /\ UNCHANGED <<env, block, arc, pending, then, left, cause, request, history>>

-----------------------------------------------------------------------------
(* The boot, and what follows.                                             *)

boot_fails ==
    /\ pc = "boot"
    /\ pc' = IF cause = "menu" THEN "menu" ELSE "run"
    /\ request' = NoRequest /\ choice' = <<>>
    /\ UNCHANGED <<env, block, arc, pending, then, left, cause, again, touched, booted, restarts>>

\* boot_cmd writes the reboot block once the kernel is in memory.
boot_cmd ==
    /\ pc = "boot" /\ pc' = "linux"
    /\ block' = [block EXCEPT !.reboot = TRUE, !.dev = request.dev,
                              !.file = StoredFile(request), !.string = StoredString(request)]
    /\ booted' = request
    /\ pending' = <<>> /\ request' = NoRequest /\ again' = {} /\ choice' = <<>>
    /\ UNCHANGED <<env, arc, then, left, cause, touched, restarts>>

\* Linux, or somebody at the prompt, restarts the machine; memory survives,
\* unless the power goes.
Restart ==
    /\ restarts < MaxRestarts
    /\ pc = "linux" \/ (pc = "run" /\ pending = <<>> /\ then = "prompt")
    /\ restarts' = restarts + 1
    /\ pc' = "start" /\ pending' = <<>> /\ then' = "prompt" /\ left' = 0
    /\ cause' = "command" /\ request' = NoRequest /\ again' = {} /\ choice' = <<>>
    /\ touched' = FALSE
    /\ \/ UNCHANGED <<block, arc, booted>>
       \/ block' = Fresh /\ arc' \in Args \cup {NoArgs} /\ booted' = NoRequest
    /\ UNCHANGED env

Milo ==
    \/ Start \/ autoboot \/ Second \/ CountdownEnds \/ parse_command
    \/ boot_fails \/ boot_cmd

Next == Milo \/ KeyPressed \/ ReadLine \/ boot_via_config \/ LeaveMenu \/ Restart

\* MILO goes on by itself; nobody needs to touch the keyboard.
Spec == Init /\ [][Next]_vars /\ WF_vars(Milo)

-----------------------------------------------------------------------------
TypeOK ==
    /\ pc \in {"start", "run", "countdown", "boot", "menu", "linux"}
    /\ then \in {"prompt", "autoboot"} /\ cause \in Causes
    /\ left \in Nat /\ again \subseteq DOMAIN Config /\ touched \in BOOLEAN

\* A restart boots again what was last handed to Linux, whatever was tried,
\* refused or set in between, as long as its name and options fit the block.
RebootRepeats ==
    /\ pc = "boot" /\ cause = "reboot"
    /\ StoredFile(booted) = booted.file /\ Len(Text(booted.string)) <= MaxString
    => /\ request.dev = booted.dev /\ request.file = booted.file
       /\ Text(request.string) = Text(booted.string)

\* The menu boots the image that was chosen, from its device, the first time
\* at least; and an option of the configuration reaches Linux unless a later
\* word has a prefix of its name: another option, one typed behind the label,
\* or one the scan found behind their text.
MenuBootsChoice ==
    pc = "boot" /\ cause = "menu" =>
        LET image == Config[choice[1]]
            own == image.root \o image.append
            scan == Given(image, choice[2]) \o choice[4]
        IN  /\ ~choice[3] => /\ request.file = image.file
                             /\ image.dev # None => request.dev = image.dev
            /\ \A k \in DOMAIN own :
                 \/ own[k] \in Range(Text(request.string))
                 \/ \E j \in (k + 1) .. Len(scan) : IsPrefix(Name(scan[j]), Name(own[k]))

\* Nobody at the keyboard: a machine told to boot by itself does, after a
\* restart or at power-on, whatever its timeout.
UnattendedBoots ==
    (pc = "start" /\ (block.reboot \/ (CanAutoboot(env) /\ arc = NoArgs)))
        ~> (pc = "boot" \/ touched)
===============================================================================
