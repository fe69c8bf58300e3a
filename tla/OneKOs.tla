------------------------------- MODULE OneKOs ------------------------------
(***************************************************************************)
(* The 1K OS as one guest: the kernel comes up (OneKKernel), then the      *)
(* shell runs in the address space it made (OneKShell).                    *)
(***************************************************************************)
EXTENDS OneKKernel, OneKShell

vars == <<kpc, build, next_page, procs, image, space, smode, keys, buf, full, last>>

Init == KernelInit /\ ShellInit

\* The first instructions at USER_BASE set up the stack and call main: they
\* need the first page of the image and the top of the stack.
StartShell ==
  /\ kpc = "user" /\ smode = "off"
  /\ smode' = IF /\ Frames(Shell.space, USER_BASE) # {}
                 /\ Frames(Shell.space, Max(ShellStack)) # {}
              THEN "menu" ELSE "fault"
  /\ UNCHANGED <<kpc, build, next_page, procs, image, space, keys, buf, full, last>>

\* The guest exited, faulted or halts for ever after a panic.
Stopped ==
  /\ kpc = "panic" \/ smode \in {"exited", "fault"}
  /\ UNCHANGED vars

Next ==
  \/ KernelNext /\ UNCHANGED shellVars
  \/ StartShell
  \/ ShellNext /\ UNCHANGED kernelVars
  \/ Stopped

\* A typed key is read, by readline.
KeyRead == keys # << >> /\ keys' = Tail(keys)

\* The host schedules the vCPU; nobody has to type.
Fairness == /\ WF_vars(KernelNext /\ UNCHANGED shellVars) /\ WF_vars(StartShell)
            /\ WF_vars(Prompt /\ UNCHANGED kernelVars) /\ WF_keys(KeyRead)

Spec == Init /\ [][Next]_vars /\ Fairness

-----------------------------------------------------------------------------
(* Properties.                                                             *)

(* The kernel brings the shell up to its menu: it neither panics nor jumps *)
(* to memory that is not there.                                            *)
ShellComesUp == <>(smode = "menu")
=============================================================================
