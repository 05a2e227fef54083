----------------------------- MODULE MCKernelEntry -----------------------------
(***************************************************************************)
(* Bytes of four values, so that addresses are below 256.  Of physical     *)
(* memory, 16 bytes are mapped; what loaders leave ends before that end,   *)
(* at it, or beyond it, in one or two parts at a time.                     *)
(***************************************************************************)
EXTENDS KernelEntry

MCStubAddress == [v \in Vectors |-> 5 * v + 3]

(* "14" ends where the mapped memory does; "15" goes on behind it.         *)
MCStrings == (5 :> 0) @@ (6 :> 2) @@ (14 :> 1) @@ (15 :> 1) @@ (17 :> 1)

(* Garbage is not looked at: it would be beyond the mapped memory.         *)
Nothing ==
  [address |-> 2, isMultiboot |-> TRUE, commandLinePresent |-> FALSE, commandLine |-> 17,
   memMapPresent |-> FALSE, mmapAddr |-> 17, mmapLength |-> 3,
   modulesPresent |-> FALSE, modsAddr |-> 17, modStrings |-> << >>]

WithCommandLine(l, s) == [l EXCEPT !.commandLinePresent = TRUE, !.commandLine = s]

WithMemMap(l, address, length) ==
  [l EXCEPT !.memMapPresent = TRUE, !.mmapAddr = address, !.mmapLength = length]

WithModules(l, address, strings) ==
  [l EXCEPT !.modulesPresent = TRUE, !.modsAddr = address, !.modStrings = strings]

MCLoaders ==
  {[Nothing EXCEPT !.isMultiboot = FALSE]}
  \cup {[Nothing EXCEPT !.address = a] : a \in {2, 12, 13, 16}}
  \cup {WithCommandLine(Nothing, s) : s \in {0, 5, 14, 15, 17}}
  \cup {WithMemMap(Nothing, 13, n) : n \in {3, 4}}
  \cup {WithModules(Nothing, a, << 0, 0 >>) : a \in {12, 13}}
  \cup {WithCommandLine(WithMemMap(WithModules(Nothing, 8, strings), 13, 3), 14) :
          strings \in {<<6>>, <<5, 14>>, <<0, 15>>}}

MCAssertions == {[w \in {"message", "file", "line"} |-> [argument |-> w]]}
=============================================================================
