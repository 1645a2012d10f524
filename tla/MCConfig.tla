------------------------------ MODULE MCConfig ------------------------------
(* Small CONFIG.SYS files: each start is one file or a few, chosen for the cases of DoConfig. *)
EXTENDS Config, TLC

L(cmd) == [cmd |-> cmd, digits |-> {}, mark |-> "", when |-> "ok", nums |-> <<>>, opts |-> {},
           high |-> FALSE, file |-> "", cut |-> FALSE]
N(cmd, nums)  == [L(cmd) EXCEPT !.nums = nums]
O(cmd, opts)  == [L(cmd) EXCEPT !.opts = opts]
F(cmd, file)  == [L(cmd) EXCEPT !.file = file]
On(d, l)      == [l EXCEPT !.digits = d]
Mark(m, l)    == [l EXCEPT !.mark = m]
When(w, l)    == [l EXCEPT !.when = w]
High(l)       == [l EXCEPT !.high = TRUE]
Cut(l)        == [l EXCEPT !.cut = TRUE]

Start(main, rest, bytes) == [files |-> (Main :> main) @@ rest, env |-> bytes]
NoFiles == [f \in {} |-> <<>>]

MenuBoot(colour, default) ==
  Start((IF colour THEN <<N("MENUCOLOR", <<7>>)>> ELSE <<>>) \o
        <<L("MENU"), N("MENUDEFAULT", default), On({1}, F("DEVICE", "himem")),
          On({2}, N("FILES", <<30>>)), On({1, 2}, N("FCBS", <<20, 10>>)), On({1}, Mark("?", F("INSTALL", "x"))),
          On({2}, Mark("!", N("FCBS", <<5>>)))>>, NoFiles, 2)

ChainBoot ==
  Start(<<F("CHAIN", "a"), O("DOS", {"HIGH", "UMB"}), Mark("!", F("DEVICE", "himem")), F("CHAIN", "b"),
          Cut(F("SHELL", "cmd"))>>,
        ("a" :> <<N("STACKS", <<70, 20>>), F("CHAIN", "b"), Cut(F("INSTALL", "lost"))>>) @@
        ("b" :> <<High(N("LASTDRIVE", <<26>>)), F("INSTALL", "x"), F("CHAIN", "none")>>), 0)

SelfBoot ==
  Start(<<O("SWITCHES", {"N"}), N("SET", <<4>>), N("SET", <<11>>), F("CHAIN", "a"), N("STACKS", <<0, 1024>>)>>,
        "a" :> <<N("FILES", <<40>>), F("CHAIN", "a"), F("INSTALL", "y")>>, 3)

SwitchBoot ==
  Start(<<O("SWITCHES", {"Y", "F"}), [O("SWITCHES", {"E"}) EXCEPT !.nums = <<100>>], L(""), L("REM"),
          When("nostring", F("DEVICE", "d")), When("nofile", F("DEVICE", "d")), Mark("?", F("DEVICE", "e")),
          When("syntax", L("BREAK")), O("BREAK", {"OFF"}), O("DOSDATA", {"UMB"}), L("ECHO"), N("FILES", <<>>),
          High(N("FILES", <<255>>))>>, NoFiles, 0)

Boots0 == {MenuBoot(FALSE, <<2, 3>>), MenuBoot(TRUE, <<2>>), ChainBoot, SelfBoot, SwitchBoot,
           [files |-> NoFiles, env |-> 0]}
MenuOnly == {MenuBoot(FALSE, <<2, 3>>)}
=============================================================================
