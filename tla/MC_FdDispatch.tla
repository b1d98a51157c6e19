---------------------------- MODULE MC_FdDispatch ----------------------------
(***************************************************************************)
(* A file-system image for FdDispatch shaped like the course image: "."    *)
(* first, "rtc" sharing inode 0 with it, a short regular file and one      *)
(* whose name fills all 32 bytes.  The names passed to open add a missing  *)
(* file and the 33-character name the 32-byte entry was truncated from.    *)
(***************************************************************************)
EXTENDS FdDispatch, TLC

LongName32 == "verylargetextwithverylongname.tx"
LongName33 == "verylargetextwithverylongname.txt"

MCDentries ==
  << [fileName |-> ".",          fileType |-> 1, inodeNumber |-> 0],
     [fileName |-> "rtc",        fileType |-> 0, inodeNumber |-> 0],
     [fileName |-> "frame0.txt", fileType |-> 2, inodeNumber |-> 1],
     [fileName |-> LongName32,   fileType |-> 2, inodeNumber |-> 2] >>

\* Inode 1 holds 3 bytes, inode 2 holds 2.
MCNumBytes == (0 :> 0) @@ (1 :> 3) @@ (2 :> 2)

MCNames == {".", "rtc", "frame0.txt", LongName32, LongName33, "nofile"}

MCNameLength ==
  ("" :> 0) @@ ("." :> 1) @@ ("rtc" :> 3) @@ ("frame0.txt" :> 10) @@
  (LongName32 :> 32) @@ (LongName33 :> 33) @@ ("nofile" :> 6)

\* A negative, an empty and a short buffer.
MCNBytes == {-1, 0, 2}

\* The shell's command "s" with no argument, with an argument, and with a
\* space and nothing after it.
MCCommands == {<<"s">>, <<"s", " ", "x">>, <<"s", " ">>}

MCPrograms == {<<"s">>}

=============================================================================
