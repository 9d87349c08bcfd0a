------------------------------ MODULE UserStart ------------------------------
(***************************************************************************)
(* How a program gets its arguments and how its exit comes back: the stack *)
(* exec_prepare_stack lays out (exec.c), the entry point that reads it     *)
(* (crt0.s), and the kernel's stack under the entry into ring 3, the       *)
(* interrupts that arrive there and the exit (gdt.c, isr_stubs.s).         *)
(*                                                                         *)
(* Addresses are bytes.  Those of the user stack are below Top; those of   *)
(* the kernel's stack are relative to the stack pointer gdt_enter_user_mode *)
(* reads for esp0.  What a word of the kernel's stack holds is named.      *)
(***************************************************************************)
EXTENDS Integers, Sequences, SequencesExt

CONSTANTS Top,       \* mapping->stack_top_virtual
          ArgMax,    \* EXEC_ARG_MAX
          Texts,     \* sizes, NUL included; texts of one size are not told apart
          ArgvMax    \* EXEC_ARGV_MAX, the words of a command the shell passes on

VARIABLES at,        \* the code that runs next
          args,      \* the words of the command
          words,     \* the user stack's words: address |-> value
          strings,   \* the user stack's texts: <<address, text>>
          usp, ksp,  \* the stack pointers of ring 3 and ring 0
          given,     \* argc and argv as main gets them
          esp0,      \* g_tss.esp0
          kstack,    \* the kernel's stack: address |-> what is there
          exitCode   \* g_user_exit_code: whether the program's code is there

vars == <<at, args, words, strings, usp, ksp, given, esp0, kstack, exitCode>>
userVars == <<args, words, strings, usp, given>>
kernelVars == <<ksp, esp0, kstack, exitCode>>

Code == {"shell", "exec_run_argv", "_start", "main", "iret",
         "gdt_user_mode_return", "behind the call"}

Init ==
  /\ at = "shell" /\ args = <<>>
  /\ words = <<>> /\ strings = {} /\ usp = Top /\ given = <<0, 0>>
  /\ esp0 = 0 /\ ksp = 0 /\ kstack = <<>> /\ exitCode = "none"
-----------------------------------------------------------------------------
(* exec_prepare_stack: the texts go down from the top, the last one first;
   Place(argv)[i] is where the i-th one begins. *)
Place(argv) ==
  LET place[i \in 1 .. Len(argv) + 1] ==
        IF i = Len(argv) + 1 THEN Top ELSE place[i + 1] - argv[i]
  IN  place

Aligned(address) == address - (address % 4)

(* Below them a NULL, the pointers to the texts, the address of the first
   pointer, and the number of texts. *)
Pushed(argv) ==
  LET argc == Len(argv)
      array == Aligned(Place(argv)[1]) - 4 * (argc + 1)
  IN  <<0>> \o Reverse(SubSeq(Place(argv), 1, argc)) \o <<array, argc>>

ExecPrepareStack ==
  /\ at = "shell" /\ at' = "exec_run_argv"
  /\ args' \in UNION {[1 .. n -> Texts] : n \in 1 .. ArgvMax}
  /\ LET argv == SubSeq(args', 1, IF Len(args') > ArgMax THEN ArgMax ELSE Len(args'))
         floor == Aligned(Place(argv)[1])
         pushed == Pushed(argv)
     IN  /\ strings' = {<<Place(argv)[i], argv[i]>> : i \in DOMAIN argv}
         /\ words' = [a \in {floor - 4 * k : k \in DOMAIN pushed} |->
                        pushed[(floor - a) \div 4]]
         /\ usp' = floor - 4 * Len(pushed)
  /\ UNCHANGED <<given, ksp, esp0, kstack, exitCode>>

(* exec_load fails: what was laid out is of no use. *)
ExecFails ==
  /\ at = "exec_run_argv" /\ at' = "shell"
  /\ UNCHANGED <<userVars, kernelVars>>

(* _start: argc from the top word, argv from the address of the next. *)
Start ==
  /\ at = "_start" /\ at' = "main"
  /\ given' = <<words[usp], usp + 4>>
  /\ usp' = usp - 12
  /\ UNCHANGED <<args, words, strings, ksp, esp0, kstack, exitCode>>
-----------------------------------------------------------------------------
(* gdt_enter_user_mode.  gcc, with the Makefile's flags, pushes the arguments
   of gdt_user_mode_enter_asm below the stack pointer it has just read; a
   build may as well write them above it.  In between, the call pushes its
   return address, behind the arguments. *)
EnterUserMode ==
  /\ at = "exec_run_argv" /\ at' = "_start"
  /\ \E below \in {0, 8} :
       kstack' = (4 - below :> "user stack") @@ (-below :> "entry")
                   @@ (-4 - below :> "behind the call")
  /\ esp0' = -4 /\ exitCode' = "failed"
  /\ UNCHANGED <<ksp, userVars>>

(* From ring 3 the processor pushes five words from esp0 on; the stub's own
   are below them. *)
Frame == [a \in {esp0 - 4 * k : k \in 1 .. 5} |->
            <<"ss", "esp", "eflags", "user code", at>>[(esp0 - a) \div 4]]

(* A timer, keyboard or mouse interrupt, or a call that returns. *)
Interrupt ==
  /\ at \in {"_start", "main"} /\ at' = "iret"
  /\ kstack' = Frame @@ kstack /\ ksp' = esp0 - 20
  /\ UNCHANGED <<esp0, exitCode, userVars>>

(* The exit call, gdt_prepare_user_exit and the process's end. *)
Exit ==
  /\ at = "main" /\ at' = "iret"
  /\ kstack' = (esp0 - 16 :> "kernel code") @@ (esp0 - 20 :> "gdt_user_mode_return")
                 @@ Frame @@ kstack
  /\ ksp' = esp0 - 20 /\ exitCode' = "the program's"
  /\ UNCHANGED <<esp0, userVars>>

(* iret takes five words back to ring 3, and three within ring 0. *)
Iret ==
  /\ at = "iret" /\ at' = kstack[ksp]
  /\ ksp' = ksp + (IF kstack[ksp + 4] = "user code" THEN 20 ELSE 12)
  /\ UNCHANGED <<esp0, kstack, exitCode, userVars>>

UserModeReturn ==
  /\ at = "gdt_user_mode_return" /\ at' = kstack[ksp + 8]
  /\ ksp' = ksp + 12
  /\ UNCHANGED <<esp0, kstack, exitCode, userVars>>

Enter == ExecPrepareStack \/ ExecFails \/ EnterUserMode \/ Start
Next == Enter \/ Interrupt \/ Exit \/ Iret \/ UserModeReturn
Spec == Init /\ [][Next]_vars
-----------------------------------------------------------------------------
(* crt0.s says that it calls main(argc, argv): as many arguments as the shell
   passed, and argv's i-th pointer is to the i-th of them. *)
MainGetsArguments ==
  at = "main" =>
    /\ given[1] = Len(args)
    /\ \A i \in DOMAIN args :
         LET pointer == given[2] + 4 * (i - 1)
         IN  /\ pointer \in DOMAIN words
             /\ <<words[pointer], args[i]>> \in strings

(* gdt.h's helpers enter and leave ring 3, and the shell prints the code the
   program left with: from ring 3 and back, what runs is code, and not a word
   that lay in the way on the kernel's stack. *)
ExitComesBack == at \in Code /\ (at = "behind the call" => exitCode = "the program's")
==============================================================================
