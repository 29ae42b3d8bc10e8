------------------------------ MODULE Terminal ------------------------------
(***************************************************************************)
(* The kernel task at the keyboard: the keyboard interrupt (keyboard.c,    *)
(* kb_translate.c), GetKey, and the shell (shell.c), which edits a line,   *)
(* cuts it into words and runs a command, on the screen of Console.        *)
(*                                                                         *)
(* Interrupts are enabled, so the handler may run between any two steps.   *)
(* Nothing but GetKey and the handler uses g_KeyInfo: one action each is   *)
(* enough for what the shell does between two calls of GetKey.             *)
(* The commands have the names and messages that CONSTANTS give them.      *)
(***************************************************************************)
EXTENDS Console, Printf, FiniteSets, FiniteSetsExt, TLC

CONSTANTS
    Scancodes,      \* what the keyboard may send (a bound)
    MaxScancodes,   \* how many of them (a bound)
    Stray,          \* what the byte behind ASCIITable may be
    Name,           \* the name of each command
    LineSize,       \* sizeof(cmdString)
    ArgvSize,       \* the entries of argv
    Devices,        \* the list firstPCI: [vendorID, deviceID]
    Texts           \* what the file system may print for dir or read

Commands == {"echo", "clear", "dir", "read", "lspci"}

ASSUME NamesAssumption ==
    /\ DOMAIN Name = Commands
    /\ \A c, d \in Commands : Name[c] = Name[d] => c = d

ASSUME ArraysAssumption == LineSize \in Nat /\ ArgvSize \in Nat

ASSUME InputsAssumption ==
    /\ Scancodes \subseteq Nat
    /\ Devices \in Seq([vendorID : Nat, deviceID : Nat])
    /\ \A text \in Texts : text \in Seq(ToSet(text))

\* A text that goes back to the start of a line ends the line, and erases nothing.
EndsItsLines(text) ==
    \/ \A i \in DOMAIN text : text[i] # "\r"
    \/ text[Len(text)] = "\n" /\ \A i \in DOMAIN text : text[i] # "BS"

\* What keeps the screen and the line together: no text leaves something behind
\* the cursor, and no key but enter is a line end.
InputsKeepTheLine ==
    /\ \A text \in Texts : EndsItsLines(text)
    /\ "\n" \notin Stray

VARIABLES
    g_KeyInfo,
    pc,             \* where the shell and its GetKey are
    key,            \* GetKey's result
    cmdString,      \* as far as inputLen
    argv,
    screen,
    sent,           \* how many scancodes have come
    stored, taken   \* the keys stored in g_KeyInfo, and those GetKey returned (auxiliary)

vars == <<g_KeyInfo, pc, key, cmdString, argv, screen, sent, stored, taken>>

NoKey == "none"

Prompt == <<"$", " ">>

Init ==
    /\ g_KeyInfo = [key |-> NoKey, uppercase |-> FALSE]
    /\ pc = "prompt"
    /\ key = NoKey
    /\ cmdString = <<>>
    /\ argv = <<>>
    /\ screen = puts(console_clearScreen, printf(<<"W", "\n">>, <<>>))
    /\ sent = 0
    /\ stored = <<>>
    /\ taken = <<>>

-----------------------------------------------------------------------------
(* The interrupts *)

LeftShift == 42
RightShift == 54
Enter == 28
BackSpace == 14
TabKey == 15

ASCIITable ==
    << NoKey, NoKey, "1", "2", "3", "4", "5", "6", "7", "8", "9", "0", "-", "=", NoKey, NoKey,
       "q", "w", "e", "r", "t", "y", "u", "i", "o", "p", "[", "]", NoKey, NoKey, "a", "s",
       "d", "f", "g", "h", "j", "k", "l", ";", "'", "backquote", NoKey, "\\", "z", "x", "c", "v",
       "b", "n", "m", ",", ".", "/", NoKey, "*", NoKey, " " >>

Lower ==
    << "a", "b", "c", "d", "e", "f", "g", "h", "i", "j", "k", "l", "m", "n", "o", "p", "q", "r", "s",
       "t", "u", "v", "w", "x", "y", "z", "1", "2", "3", "4", "5", "6", "7", "8", "9", "0",
       ";", "[", "]", "'", "-", "=", "\\", ",", ".", "/", "backquote" >>

Upper ==
    << "A", "B", "C", "D", "E", "F", "G", "H", "I", "J", "K", "L", "M", "N", "O", "P", "Q", "R", "S",
       "T", "U", "V", "W", "X", "Y", "Z", "!", "@", "#", "$", "%", "^", "&", "*", "(", ")",
       ":", "{", "}", "quote", "_", "+", "|", "<", ">", "?", "~" >>

Shifted == [c \in ToSet(Lower) |-> Upper[CHOOSE i \in DOMAIN Lower : Lower[i] = c]]

\* What TranslateToASCII may return: the byte for scancode 58 is not the table's.
TranslateToASCII(scancode, uppercase) ==
    IF scancode > 58 THEN {NoKey}
    ELSE LET found == IF scancode = 58 THEN Stray ELSE {ASCIITable[scancode + 1]}
         IN  {IF uppercase /\ c \in DOMAIN Shifted THEN Shifted[c] ELSE c : c \in found}

KeysOf(scancode) ==
    CASE scancode = Enter     -> {"\r"}
      [] scancode = BackSpace -> {"BS"}
      [] scancode = TabKey    -> {"\t"}
      [] OTHER                -> TranslateToASCII(scancode, g_KeyInfo.uppercase)

\* Every character that a key, a text or a message may have, and what the screen adds.
Chars ==
    {Cursor, Background, Junk, "\r", "\n", "\t", "BS", "-", ",", "%", "$", "W", "P", "C", "V", "D"}
    \cup ToSet(ASCIITable) \cup ToSet(Upper) \cup Stray
    \cup ToSet(g_HexChars) \cup UNION {ToSet(text) : text \in Texts}

StillHalted == pc       \* mutant: only a key ends hlt

Awake == IF pc = "halted" THEN "test" ELSE pc

ShellRuns == pc # "fault"

\* Shift's own codes, and those of its release.
ShiftChanged(scancode) ==
    /\ g_KeyInfo' = [g_KeyInfo EXCEPT !.uppercase = scancode \in {LeftShift, RightShift}]
    /\ UNCHANGED stored

KeyStored(scancode) ==
    \E k \in KeysOf(scancode) :
        IF k = NoKey THEN UNCHANGED <<g_KeyInfo, stored>>
        ELSE g_KeyInfo' = [g_KeyInfo EXCEPT !.key = k] /\ stored' = Append(stored, k)

IRQKeyboardHandler(scancode) ==
    /\ ShellRuns
    /\ sent < MaxScancodes
    /\ sent' = sent + 1
    /\ pc' = IF pc = "halted" THEN "test" ELSE pc
    /\ IF scancode \in {LeftShift, RightShift, LeftShift + 128, RightShift + 128}
       THEN ShiftChanged(scancode) ELSE KeyStored(scancode)
    /\ UNCHANGED <<key, cmdString, argv, screen, taken>>

\* The timer interrupt comes back to the shell in the end.
TimerTick ==
    /\ pc = "halted"
    /\ pc' = Awake
    /\ UNCHANGED <<g_KeyInfo, key, cmdString, argv, screen, sent, stored, taken>>

-----------------------------------------------------------------------------
(* GetKey *)

Goto(where) == pc' = where

\* The test and hlt are two steps, and so are reading the key and clearing it.
TestKey ==
    /\ pc = "test"
    /\ Goto(IF g_KeyInfo.key = NoKey THEN "hlt" ELSE "read")
    /\ UNCHANGED <<g_KeyInfo, key, cmdString, argv, screen, sent, stored, taken>>

Halt ==
    /\ pc = "hlt"
    /\ Goto("halted")
    /\ UNCHANGED <<g_KeyInfo, key, cmdString, argv, screen, sent, stored, taken>>

ReadKey ==
    /\ pc = "read"
    /\ key' = g_KeyInfo.key
    /\ Goto("clear")
    /\ UNCHANGED <<g_KeyInfo, cmdString, argv, screen, sent, stored, taken>>

ClearedNot == g_KeyInfo     \* mutant: the key stays

Cleared == [g_KeyInfo EXCEPT !.key = NoKey]

ClearKey ==
    /\ pc = "clear"
    /\ g_KeyInfo' = Cleared
    /\ taken' = Append(taken, key)
    /\ Goto("edit")
    /\ UNCHANGED <<key, cmdString, argv, screen, sent, stored>>

-----------------------------------------------------------------------------
(* The shell *)

NoKeyboard == UNCHANGED <<g_KeyInfo, key, sent, stored, taken>>

Say(fmt, args) == screen' = puts(screen, printf(fmt, args))

ShowPrompt ==
    /\ pc = "prompt"
    /\ Say(Prompt, <<>>)
    /\ cmdString' = <<>>
    /\ Goto("test")
    /\ UNCHANGED argv
    /\ NoKeyboard

IsSpace(c) == c \in {" ", "\n", "\r", "\t", "BS"}

WordLength(s) ==
    LET spaces == {i \in DOMAIN s : IsSpace(s[i])}
    IN  IF spaces = {} THEN Len(s) ELSE Min(spaces) - 1

SkipOneSpace(s) == IF s # <<>> /\ IsSpace(s[1]) THEN Tail(s) ELSE s     \* mutant

SkipSpaces(s) ==
    LET rest == {i \in DOMAIN s : ~IsSpace(s[i])}
    IN  IF rest = {} THEN <<>> ELSE SubSeq(s, Min(rest), Len(s))

\* The loop over cmdString: it looks for a word as long as a character is left,
\* be it a space.
Tokenize(line) ==
    LET words[s \in Seq(Chars)] ==
            IF s = <<>> THEN <<>>
            ELSE LET word == SkipSpaces(s)
                     end == WordLength(word)
                 IN  <<SubSeq(word, 1, end)>> \o words[SubSeq(word, end + 1, Len(word))]
    IN  words[line]

\* The shell checks neither: what it writes behind an array is not its own.
FitsArrays(line) == Len(line) < LineSize /\ Len(Tokenize(line)) <= ArgvSize

Submit ==
    \/ cmdString = <<>> /\ Goto("prompt") /\ UNCHANGED argv
    \/ cmdString # <<>> /\ FitsArrays(cmdString) /\ Goto("run") /\ argv' = Tokenize(cmdString)
    \/ cmdString # <<>> /\ ~FitsArrays(cmdString) /\ Goto("fault") /\ UNCHANGED argv

\* launchShell with the key that GetKey returned.
EnterPressed ==
    /\ pc = "edit" /\ key = "\r"
    /\ Say(<<"\n">>, <<>>)
    /\ Submit
    /\ UNCHANGED cmdString
    /\ NoKeyboard

BackSpacePressed ==
    /\ pc = "edit" /\ key = "BS"
    /\ IF cmdString = <<>> THEN UNCHANGED <<cmdString, screen>>
       ELSE cmdString' = Front(cmdString) /\ Say(<<"BS">>, <<>>)
    /\ Goto("test")
    /\ UNCHANGED argv
    /\ NoKeyboard

HasRoom(n) == Len(cmdString) + n <= LineSize

TabPressed ==
    /\ pc = "edit" /\ key = "\t"
    /\ HasRoom(4)
    /\ cmdString' = cmdString \o <<" ", " ", " ", " ">>
    /\ Say(<<"\t">>, <<>>)
    /\ Goto("test")
    /\ UNCHANGED argv
    /\ NoKeyboard

CharPressed ==
    /\ pc = "edit" /\ key \notin {"\r", "BS", "\t"}
    /\ HasRoom(1)
    /\ cmdString' = Append(cmdString, key)
    /\ screen' = putc(screen, key)
    /\ Goto("test")
    /\ UNCHANGED argv
    /\ NoKeyboard

\* A character more than cmdString holds: what follows is undefined.
LineOverrun ==
    /\ pc = "edit" /\ key \notin {"\r", "BS"}
    /\ ~HasRoom(IF key = "\t" THEN 4 ELSE 1)
    /\ Goto("fault")
    /\ UNCHANGED <<cmdString, argv, screen>>
    /\ NoKeyboard

Runs(command) == pc = "run" /\ argv[1] = Name[command]

Done == Goto("prompt") /\ UNCHANGED <<cmdString, argv>> /\ NoKeyboard

EchoWord(word) == printf(<<"%", "s", " ">>, <<word>>)

RunEcho ==
    /\ Runs("echo")
    /\ LET words == Tail(argv)
       IN  screen' = puts(screen, Append(FlattenSeq([n \in DOMAIN words |-> EchoWord(words[n])]), "\n"))
    /\ Done

RunClear == Runs("clear") /\ screen' = console_clearScreen /\ Done

\* FAT32_ListDirectory prints what it finds; the shell says when it fails.
RunDir ==
    /\ Runs("dir")
    /\ \E text \in Texts : screen' = puts(screen, text)
    /\ Done

\* FAT32_Open of a file that is not there returns NULL, which FAT32_Read reads.
RunRead ==
    /\ Runs("read")
    /\ \/ /\ Len(argv) < 2
          /\ Say(<<"P", "\n">>, <<>>)
          /\ Done
       \/ /\ Len(argv) >= 2
          /\ \E text \in Texts : screen' = puts(screen, Append(text, "\n"))
          /\ Done
       \/ /\ Len(argv) >= 2
          /\ Goto("fault")
          /\ UNCHANGED <<cmdString, argv, screen>>
          /\ NoKeyboard

DeviceLine(d) == printf(<<"V", "%", "x", ",", "D", "%", "x", "\n">>, <<d.vendorID, d.deviceID>>)

RunLspci ==
    /\ Runs("lspci")
    /\ screen' = puts(screen, FlattenSeq([n \in DOMAIN Devices |-> DeviceLine(Devices[n])]))
    /\ Done

RunUnknown ==
    /\ pc = "run"
    /\ \A c \in Commands : argv[1] # Name[c]
    /\ Say(<<"C", "\n">>, <<>>)
    /\ Done

-----------------------------------------------------------------------------
GetKey == TestKey \/ Halt \/ ReadKey \/ ClearKey

Edit == EnterPressed \/ BackSpacePressed \/ TabPressed \/ CharPressed \/ LineOverrun

RunCommand == RunEcho \/ RunClear \/ RunDir \/ RunRead \/ RunLspci \/ RunUnknown

Shell == GetKey \/ ShowPrompt \/ Edit \/ RunCommand

Next == TimerTick \/ Shell \/ \E scancode \in Scancodes : IRQKeyboardHandler(scancode)

Spec == Init /\ [][Next]_vars

\* The timer keeps ticking and the shell goes on.
FairSpec == Spec /\ WF_vars(TimerTick) /\ WF_vars(Shell)

-----------------------------------------------------------------------------
(* Properties *)

TypeOK ==
    /\ g_KeyInfo.uppercase \in BOOLEAN
    /\ pc \in {"prompt", "test", "hlt", "halted", "read", "clear", "edit", "run", "fault"}
    /\ pc \in {"clear", "edit"} => key # NoKey
    /\ pc = "run" => argv # <<>>
    /\ <<screen.x, screen.y>> \in Cells
    /\ screen.cell \in [Cells -> Chars]

\* s is t without some of its members.
IsSubSeq(s, t) ==
    \E place \in [DOMAIN s -> DOMAIN t] :
        /\ \A i, j \in DOMAIN s : i < j => place[i] < place[j]
        /\ \A i \in DOMAIN s : s[i] = t[place[i]]

\* Whenever the handler runs between two steps of GetKey, no key is returned
\* twice or before an earlier one.
KeysComeOnceInOrder == IsSubSeq(taken, stored)

\* A key that is stored is taken, or replaced by a later one, even if it comes
\* between GetKey's test and its hlt: the next interrupt, the timer's at the latest,
\* makes it look again.
KeyIsTaken == g_KeyInfo.key # NoKey ~> g_KeyInfo.key = NoKey \/ ~ShellRuns

\* While a line is edited the screen ends with as much of the prompt and the line as fits,
\* the cursor is behind it and nothing else follows: backspaces, tabs, line ends
\* and the clearing of a full screen keep the two together.
Place(c) == c[2] * Columns + c[1]

Shown(first, last) == [i \in 1 .. last - first + 1 |->
    screen.cell[<<(first + i - 1) % Columns, (first + i - 1) \div Columns>>]]

ScreenShowsLine ==
    pc \in {"test", "hlt", "halted", "read", "clear", "edit"} =>
        LET text == Prompt \o cmdString
            here == Place(<<screen.x, screen.y>>)
            fits == IF here < Len(text) THEN here ELSE Len(text)
        IN  /\ Shown(here - fits, here - 1) = SubSeq(text, Len(text) - fits + 1, Len(text))
            /\ screen.cell[<<screen.x, screen.y>>] = Cursor
            /\ \A c \in Cells : Place(c) > here => screen.cell[c] = Background

\* When a command runs, the line and its words having fitted cmdString and argv, argv
\* holds the words of the line, from each start up to the next space, in order, and
\* one more, empty, if the line ends with a space.
StartsOfWords(line) ==
    {i \in DOMAIN line : ~IsSpace(line[i]) /\ (i > 1 => IsSpace(line[i - 1]))}

WordAt(line, i) ==
    LET rest == SubSeq(line, i, Len(line)) IN SubSeq(rest, 1, WordLength(rest))

AreWords(words, line) ==
    \E start \in [DOMAIN words -> StartsOfWords(line)] :
        /\ \A i, j \in DOMAIN words : i < j => start[i] < start[j]
        /\ StartsOfWords(line) = {start[n] : n \in DOMAIN words}
        /\ \A n \in DOMAIN words : words[n] = WordAt(line, start[n])

ArgvIsWords ==
    pc = "run" =>
        IF IsSpace(Last(cmdString)) THEN Last(argv) = <<>> /\ AreWords(Front(argv), cmdString)
        ELSE AreWords(argv, cmdString)
=============================================================================
