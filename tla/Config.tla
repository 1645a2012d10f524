------------------------------- MODULE Config -------------------------------
(***************************************************************************)
(* CONFIG.SYS (kernel/config.c): the three passes over the file, the menu,  *)
(* the F5/F8 keys and the questions, CHAIN, the settings a line changes,    *)
(* and the INSTALL commands run after the last pass.  A line is a record;   *)
(* its text is reduced to what the code tests.  What the devices of pass 2  *)
(* do to memory is module StartMem.                                         *)
(***************************************************************************)
EXTENDS Integers, FiniteSets, SequencesExt

CONSTANTS Boots,       \* [files |-> name -> sequence of lines, env |-> bytes the host put there]
          MaxChains,   \* MAX_CHAINS
          MaxInstall,  \* LENGTH(InstallCommands)
          EnvSize,     \* sizeof(master_env)
          MaxTimes     \* bound of the history: how often a file or a line is counted

ASSUME BootAssumption == MaxChains \in Nat \ {0} /\ MaxInstall \in Nat \ {0} /\ EnvSize \in Nat

VARIABLES boot,          \* the disk and the environment of this start
          pass, at,      \* nPass, and where DoConfig stands
          here, eof,     \* the file and line being read (nFileDesc, nCfgLine), bEof
          chain,         \* cfgFile[0 .. nCurChain-1]
          switchesPass, chainPass,       \* commands[].pass of SWITCHES and CHAIN
          menu,          \* Menus, MenuSelected, MenuTimeout and whether MenuColor is set
          user,          \* singleStep, SkipAllConfig, SkipConfigSeconds
          config,        \* Config and the other settings
          installs,      \* InstallCommands[0 .. numInstallCmds-1], and how many were executed
          env,           \* envp - master_env
          opens, ran, refused, touched   \* history: files opened, lines run, lines the user refused

vars == <<boot, pass, at, here, eof, chain, switchesPass, chainPass, menu, user, config,
          installs, env, opens, ran, refused, touched>>

-----------------------------------------------------------------------------
(* The table of commands and a line of the file *)

PassZero == {"REM", "MENUCOLOR", "MENUDEFAULT", "MENU"}
PassTwo  == {"DEVICE", "INSTALL", "SET", "ECHO"}
Unknown  == -1

CommandPass(cmd) ==
  CASE cmd = "SWITCHES" -> switchesPass
    [] cmd = "CHAIN"    -> chainPass
    [] cmd = ""         -> Unknown
    [] cmd \in PassZero -> 0
    [] cmd \in PassTwo  -> 2
    [] OTHER            -> 1

Lines(f)  == boot.files[f]
Line      == Lines(here.file)[here.line]
Main      == "config"

(* The line is excluded before the user is asked: wrong pass, or "#n" names no string. *)
WrongPass(l) == CommandPass(l.cmd) >= 0 /\ CommandPass(l.cmd) # pass
(* After the question: wrong syntax, a predicate bit that is clear, a file that is missing. *)
Excluded(l)  == l.when \in {"syntax", "nopred", "nofile"}
OffMenu(l)   == l.digits # {} /\ menu.selected \notin l.digits
Asks(l)      == l.mark # "!" /\ (l.mark = "?" \/ user.singleStep)

Count(f, key) == IF key \in DOMAIN f THEN f[key] ELSE 0
Once(f, key)  == [k \in DOMAIN f \cup {key} |->
                    IF k # key THEN f[k] ELSE IF Count(f, k) < MaxTimes THEN Count(f, k) + 1 ELSE MaxTimes]

-----------------------------------------------------------------------------
(* Settings: fields of struct config have the width of a byte *)

UByte(n) == n % 256
SByte(n) == IF n % 256 > 127 THEN (n % 256) - 256 ELSE n % 256
Clamp(n, low, high) == IF n < low THEN low ELSE IF n > high THEN high ELSE n

(* FILES: the larger of the value so far and the number asked for, at most SFTMAX. *)
Files(c, l) ==
  LET ok == l.nums # <<>> /\ l.nums[1] <= 256
  IN  [c EXCEPT !.files = IF ok /\ l.nums[1] > @ THEN UByte(l.nums[1]) ELSE @,
                !.filesHigh = l.high \/ (@ /\ ~ok)]

(* LASTDRIVE: a letter, never less than the value so far. *)
CfgLastdrive(c, l) ==
  LET ok == l.nums # <<>> /\ l.nums[1] \in 1 .. 26
  IN  [c EXCEPT !.lastdrive = IF ok /\ l.nums[1] > @ THEN l.nums[1] ELSE @,
                !.lastdriveHigh = l.high \/ (@ /\ ~ok)]

(* FCBS = total [, protected]: no more are protected than there are. *)
Fcbs(c, l) ==
  IF l.nums = <<>> THEN c
  ELSE LET total == UByte(l.nums[1])
           prot  == IF Len(l.nums) > 1 THEN UByte(l.nums[2]) ELSE c.prot
       IN  [c EXCEPT !.fcbs = total, !.prot = IF prot > total THEN total ELSE prot]

(* STACKS = count [, size]: sizes from 32 to 512 bytes, at most 64 stacks. *)
Stacks(c, l) ==
  LET count == SByte(l.nums[1])
      size  == IF Len(l.nums) > 1 THEN l.nums[2] % 65536 ELSE c.stackSize
  IN  [c EXCEPT !.stacks = IF count > 64 THEN 64 ELSE count,
                !.stackSize = IF count = 0 THEN size ELSE Clamp(size, 32, 512),
                !.stacksHigh = l.high]

(* DOS = HIGH, UMB.  A second DOS line does not take back UMB (UmbState is no longer 0). *)
Dosmem(c, l) ==
  [c EXCEPT !.hma = IF "HIGH" \in l.opts /\ @ = "none" THEN "req" ELSE @,
            !.umb = IF @ = 0 /\ "UMB" \in l.opts /\ "bad" \notin l.opts THEN 2 ELSE @]

Shell(c, l)   == [c EXCEPT !.shell = l.file, !.shellHigh = l.high]
DosData(c, l) == [c EXCEPT !.dosDataUmb = @ \/ "UMB" \in l.opts]
CfgBreak(c, l) == [c EXCEPT !.break = "OFF" \notin l.opts]

(* SWITCHES /E:n in pass 1: -1 for all of it, or 48 .. 1024 bytes in paragraphs. *)
Ebda(c, l) ==
  [c EXCEPT !.ebda = IF l.nums = <<>> \/ "E" \notin l.opts THEN @
                     ELSE IF l.nums[1] = -1 THEN 65535
                     ELSE IF l.nums[1] \in 48 .. 1024 THEN ((l.nums[1] + 15) \div 16) * 16 ELSE @]

Setting(c, l) ==
  CASE l.cmd = "FILES"     -> Files(c, l)
    [] l.cmd = "LASTDRIVE" -> CfgLastdrive(c, l)
    [] l.cmd = "FCBS"      -> Fcbs(c, l)
    [] l.cmd = "STACKS"    -> Stacks(c, l)
    [] l.cmd = "DOS"       -> Dosmem(c, l)
    [] l.cmd = "SHELL"     -> Shell(c, l)
    [] l.cmd = "DOSDATA"   -> DosData(c, l)
    [] l.cmd = "BREAK"     -> CfgBreak(c, l)
    [] l.cmd = "SWITCHES" /\ pass = 1 -> Ebda(c, l)
    [] OTHER -> c

-----------------------------------------------------------------------------
(* What the handler of a command does *)

(* AddEnv: the variable and two zeros must fit. *)
AddEnv(size) == IF size < EnvSize - env - 1 THEN env + size + 1 ELSE env

(* SWITCHES the first time: /N, /F and /Y act now, and the line is seen again in pass 1. *)
CfgSwitches(l) ==
  [user EXCEPT !.skipSeconds = IF "N" \in l.opts THEN -1 ELSE IF "F" \in l.opts THEN 0 ELSE @,
               !.singleStep = @ \/ "Y" \in l.opts]

CfgMenuDefault(l) ==
  IF l.nums = <<>> THEN menu
  ELSE [menu EXCEPT !.selected = l.nums[1],
                    !.timeout = IF Len(l.nums) > 1 THEN l.nums[2] ELSE @]

CfgMenuColor(l) == IF l.nums = <<>> THEN menu ELSE [menu EXCEPT !.colour = TRUE]

(* _CmdInstall: the test of the limit is made with > (an entry past the array is admitted). *)
CmdInstall(l) ==
  IF Len(installs.list) > MaxInstall THEN installs
  ELSE [installs EXCEPT !.list = Append(@, l.file)]

NextLine == here' = [here EXCEPT !.line = @ + 1]

(* CmdChain: the caller's place is saved and the chained file is read from its first line;
   after an unterminated last line bEof ends the pass although a file is on the chain. *)
CmdChain(l) ==
  /\ chain' = Append(chain, here)
  /\ here' = [file |-> l.file, line |-> 1]
  /\ opens' = Once(opens, <<pass, l.file>>)

CanChain(l) == Len(chain) < MaxChains /\ l.file \in DOMAIN boot.files

(* pEntry->func(pLine) *)
Execute(l) ==
  /\ ran' = Once(ran, <<pass, here.file, here.line>>)
  /\ IF l.cmd = "CHAIN" /\ CanChain(l) THEN CmdChain(l)
     ELSE NextLine /\ UNCHANGED <<chain, opens>>
  /\ config' = Setting(config, l)
  /\ installs' = IF l.cmd = "INSTALL" THEN CmdInstall(l) ELSE installs
  /\ env' = IF l.cmd = "SET" THEN AddEnv(l.nums[1]) ELSE env
  /\ menu' = CASE l.cmd = "MENUDEFAULT" -> CfgMenuDefault(l)
               [] l.cmd = "MENUCOLOR"   -> CfgMenuColor(l)
               [] OTHER                 -> menu
  /\ switchesPass' = IF l.cmd = "SWITCHES" THEN 1 ELSE switchesPass
  /\ user' = IF l.cmd = "SWITCHES" /\ switchesPass = 0 THEN CfgSwitches(l) ELSE user
  /\ at' = "read"
  /\ UNCHANGED <<boot, pass, eof, chainPass, refused, touched>>

-----------------------------------------------------------------------------
Init ==
  /\ boot \in Boots
  /\ pass = 0 /\ at = "open" /\ here = [file |-> Main, line |-> 1] /\ eof = FALSE
  /\ chain = <<>> /\ switchesPass = 0 /\ chainPass = 1
  /\ menu = [items |-> {}, selected |-> 0, timeout |-> -1, colour |-> FALSE]
  /\ user = [singleStep |-> FALSE, skipAll |-> FALSE, skipSeconds |-> 2]
  /\ config = [files |-> 16, filesHigh |-> FALSE, lastdrive |-> 16, lastdriveHigh |-> FALSE,
               fcbs |-> 16, prot |-> 0, stacks |-> 8, stackSize |-> 256, stacksHigh |-> FALSE,
               shell |-> "", shellHigh |-> FALSE, hma |-> "none", umb |-> 0,
               dosDataUmb |-> FALSE, break |-> FALSE, ebda |-> 0]
  /\ installs = [list |-> <<>>, done |-> <<>>]
  /\ env = boot.env
  /\ opens = [k \in {} |-> 0] /\ ran = [k \in {} |-> 0] /\ refused = FALSE /\ touched = FALSE

Keep == UNCHANGED <<config, installs, env, ran>>

(* DoConfig opens the first of its files that exists, or returns. *)
Open ==
  /\ at = "open"
  /\ IF Main \in DOMAIN boot.files
     THEN /\ at' = "read" /\ here' = [file |-> Main, line |-> 1] /\ eof' = FALSE
          /\ opens' = Once(opens, <<pass, Main>>)
          /\ UNCHANGED pass
     ELSE /\ IF pass = 2 THEN at' = "install" /\ UNCHANGED pass
                         ELSE pass' = pass + 1 /\ UNCHANGED at
          /\ UNCHANGED <<here, eof, opens>>
  /\ UNCHANGED <<boot, chain, switchesPass, chainPass, menu, user, refused, touched>> /\ Keep

AtEnd == here.line > Len(Lines(here.file))

(* Mutant: the line after the CHAIN line is lost. *)
NextOfSkipping(place) == [place EXCEPT !.line = @ + 2]
NextOf(place)         == [place EXCEPT !.line = @ + 1]

(* The end of a chained file, met at the end of the text or after a last line without a
   line end (that line is dropped): back to the line after the CHAIN. *)
Unchain ==
  /\ at = "read" /\ ~eof /\ chain # <<>> /\ (~AtEnd => Line.cut)
  /\ here' = NextOf(Last(chain))
  /\ chain' = Front(chain)
  /\ UNCHANGED <<boot, pass, at, eof, switchesPass, chainPass, menu, user, opens, refused, touched>>
  /\ Keep

(* A line: scan notes its menu digits; a line of another pass, or without its string, is
   skipped; in pass 0 it is executed at once, otherwise SkipLine decides. *)
Read ==
  /\ at = "read" /\ ~eof /\ ~AtEnd /\ (Line.cut => chain = <<>>)
  /\ eof' = Line.cut
  /\ menu' = [menu EXCEPT !.items = @ \cup Line.digits]
  /\ IF WrongPass(Line) \/ Line.when = "nostring" THEN at' = "read" /\ NextLine
     ELSE at' = (IF pass = 0 THEN "do" ELSE IF user.skipSeconds >= 0 THEN "skipkey" ELSE "decide")
          /\ UNCHANGED here
  /\ UNCHANGED <<boot, pass, chain, switchesPass, chainPass, user, opens, refused, touched>> /\ Keep

(* SkipLine, once: F5 or F8 within SkipConfigSeconds. *)
SkipKey(key) ==
  /\ at = "skipkey"
  /\ user' = [user EXCEPT !.skipSeconds = -1, !.skipAll = @ \/ key = "F5",
                          !.singleStep = @ \/ key = "F8"]
  /\ at' = "decide"
  /\ touched' = (touched \/ key # "none")
  /\ UNCHANGED <<boot, pass, here, eof, chain, switchesPass, chainPass, menu, opens, refused>>
  /\ Keep

SkipAll(l) == user.skipAll

(* A skipped SWITCHES line also ends single stepping. *)
Skip(l, u, no) ==
  /\ user' = IF l.cmd = "SWITCHES" THEN [u EXCEPT !.singleStep = FALSE] ELSE u
  /\ at' = "read" /\ NextLine
  /\ refused' = (refused \/ no)
  /\ UNCHANGED <<boot, pass, eof, chain, switchesPass, chainPass, menu, opens>> /\ Keep

Decide ==
  /\ at = "decide"
  /\ \/ SkipAll(Line) /\ Skip(Line, user, TRUE)
     \/ ~SkipAll(Line) /\ OffMenu(Line) /\ Skip(Line, user, FALSE)
     \/ /\ ~SkipAll(Line) /\ ~OffMenu(Line)
        /\ at' = IF Asks(Line) THEN "ask" ELSE "do"
        /\ UNCHANGED <<boot, pass, here, eof, chain, switchesPass, chainPass, menu, user, opens, refused>>
        /\ Keep
  /\ UNCHANGED touched

(* The answer to "[Y,N]?"; any other key is read over. *)
Answer(key) ==
  /\ at = "ask"
  /\ \/ key = "N"  /\ Skip(Line, user, TRUE)
     \/ key = "F5" /\ Skip(Line, [user EXCEPT !.skipAll = TRUE], TRUE)
     \/ /\ key \in {"Enter", "Y", "Esc"}
        /\ user' = [user EXCEPT !.singleStep = @ /\ key # "Esc"]
        /\ at' = "do"
        /\ UNCHANGED <<boot, pass, here, eof, chain, switchesPass, chainPass, menu, opens, refused>>
        /\ Keep
  /\ touched' = TRUE

(* The last tests, then the handler. *)
Do ==
  /\ at = "do"
  /\ IF pass > 0 /\ Excluded(Line)
     THEN /\ at' = "read" /\ NextLine
          /\ UNCHANGED <<boot, pass, eof, chain, switchesPass, chainPass, menu, user, opens,
                         refused, touched>> /\ Keep
     ELSE Execute(Line)

(* The end of the file ends the pass: the menu after pass 0, and CHAIN is due once more.
   DoMenu makes no question of F5/F8 later, and without colours '0' is always allowed. *)
EndPass ==
  /\ at = "read" /\ (eof \/ (AtEnd /\ chain = <<>>))
  /\ IF pass = 0 /\ menu.items # {}
     THEN /\ at' = "menu"
          /\ user' = [user EXCEPT !.skipSeconds = -1]
          /\ menu' = [menu EXCEPT !.items = IF menu.colour THEN @ ELSE @ \cup {0}]
          /\ UNCHANGED <<pass, chainPass>>
     ELSE /\ IF pass = 2 THEN at' = "install" /\ UNCHANGED pass
                         ELSE at' = "open" /\ pass' = pass + 1
          /\ chainPass' = IF pass > 0 THEN pass + 1 ELSE chainPass
          /\ UNCHANGED <<user, menu>>
  /\ UNCHANGED <<boot, here, eof, chain, switchesPass, opens, refused, touched>> /\ Keep

(* DoMenu's loop.  Leaving it writes CONFIG=n after the environment, with no test of room. *)
LeaveMenu(m, u) ==
  /\ menu' = m /\ user' = u
  /\ env' = env + 9
  /\ at' = "open" /\ pass' = 1

StayInMenu(m, u) == menu' = m /\ user' = u /\ UNCHANGED <<env, at, pass>>

(* No key within the second: GetBiosKey returns the UWORD 0xffff, which as an int is not -1,
   so the wait becomes one without timeout. *)
MenuNoKey ==
  /\ at = "menu" /\ menu.timeout >= 0
  /\ StayInMenu([menu EXCEPT !.timeout = -1], user)
  /\ UNCHANGED <<boot, here, eof, chain, switchesPass, chainPass, opens, refused, touched,
                 config, installs, ran>>

MenuKey(key) ==
  LET m == [menu EXCEPT !.timeout = -1]
      Arrow(n) == IF menu.colour /\ menu.selected + n \in menu.items
                  THEN [m EXCEPT !.selected = @ + n] ELSE m
  IN  /\ at = "menu"
      /\ \/ key = "F5"   /\ LeaveMenu(m, [user EXCEPT !.skipAll = TRUE])
         \/ key \in {"Enter", "Esc"} /\ LeaveMenu(m, user)
         \/ key = "Y"    /\ \E n \in menu.items : LeaveMenu([m EXCEPT !.selected = n], user)
         \/ key = "F8"   /\ StayInMenu(m, [user EXCEPT !.singleStep = ~@])
         \/ key = "Up"   /\ StayInMenu(Arrow(-1), user)
         \/ key = "Down" /\ StayInMenu(Arrow(1), user)
      /\ touched' = TRUE
      /\ UNCHANGED <<boot, here, eof, chain, switchesPass, chainPass, opens, refused,
                     config, installs, ran>>

(* Mutant: i is not counted up. *)
ExecutedNone(list, done) == done
Executed(list, done)     == Append(done, list[Len(done) + 1])

(* DoInstall: the commands are executed in their order, whether or not one fails. *)
Install ==
  /\ at = "install"
  /\ IF Len(installs.done) < Len(installs.list)
     THEN /\ installs' = [installs EXCEPT !.done = Executed(installs.list, @)]
          /\ UNCHANGED at
     ELSE at' = "shell" /\ UNCHANGED installs
  /\ UNCHANGED <<boot, pass, here, eof, chain, switchesPass, chainPass, menu, user, opens,
                 refused, touched, config, env, ran>>

Keys == {"F5", "F8", "Up", "Down", "Enter", "Esc", "Y", "N"}

Program == Open \/ Unchain \/ Read \/ SkipKey("none") \/ Decide \/ Do \/ EndPass \/ MenuNoKey \/ Install
User    == \E key \in Keys : SkipKey(key) \/ Answer(key) \/ MenuKey(key)
Started == at = "shell" /\ UNCHANGED vars

Next == Program \/ User \/ Started
Spec == Init /\ [][Next]_vars

(* The program goes on by itself (GetBiosKey with a timeout returns); the user need not. *)
FairSpec == Spec /\ WF_vars(Program)

-----------------------------------------------------------------------------
(* Properties *)

(* The lines pass p is to run: SWITCHES only when pass 0 has met one in the main file. *)
Due(l, p) ==
  CASE l.cmd = "SWITCHES" -> p = 1 /\ switchesPass = 1
    [] l.cmd \in {"CHAIN", ""} -> TRUE
    [] l.cmd \in PassZero    -> FALSE
    [] OTHER                 -> p = IF l.cmd \in PassTwo THEN 2 ELSE 1

Expected(p, f, i) ==
  LET l == Lines(f)[i]
  IN  IF Due(l, p) /\ l.when = "ok" /\ ~OffMenu(l) /\ (l.cut => f = Main)
      THEN Count(opens, <<p, f>>) ELSE 0

(* When the passes are over, every line of every file that was opened has run once for each
   time its file was opened, in the pass of its command, and no line the menu excludes; only
   a user who answered no, or pressed F5, may have kept lines from running. *)
RunsItsLines ==
  at = "install" =>
    \A p \in {1, 2}, f \in DOMAIN boot.files : \A i \in DOMAIN Lines(f) :
      LET n == Count(ran, <<p, f, i>>)
      IN  n <= Expected(p, f, i) /\ (~refused => n = Expected(p, f, i))

(* The start-up comes to the shell, or to a question only the user can end: in particular a
   file that chains itself does not keep it busy. *)
ConfigSettles == <>[](at \in {"shell", "ask", "menu"})

(* A menu with a timeout is left without the user: "timeout, take default". *)
MenuTimesOut == [](at = "menu" /\ menu.timeout >= 0 => <>(at # "menu" \/ touched))
=============================================================================
