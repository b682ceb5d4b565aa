------------------------------ MODULE FcConfig ------------------------------
(***************************************************************************)
(* How libfc comes to its parameters, as operators: the resource file      *)
(* ./.functioncheckrc and the environment (libfc/fc_ressources.c), the     *)
(* mode and the sizes (_init in libfc/fc_check.c), and the clocks that     *)
(* stamp the events (fcmanager/fc_time.c).                                 *)
(***************************************************************************)
EXTENDS Integers, SequencesExt

CONSTANTS
  Numerals,  \* the strings that begin with a number, and that number
  Micro,     \* microseconds in a second
  U32        \* 2^32 in the code: clocks are cut to an unsigned int

ASSUME ConfigAssumption ==
  /\ Range(Numerals) \subseteq Int
  /\ Micro \in Nat \ {0} /\ U32 \in Nat \ {0}

(* the variables that begin with FC_ *)
Variables ==
  {"FC_QUIET", "FC_HELP", "FC_MEMORY", "FC_MEMORY_STACK", "FC_BUFFER_SIZE",
   "FC_STACK_SIZE", "FC_FUNCTION_SIZE", "FC_GRAPH_SIZE", "FC_MEMORY_SIZE",
   "FC_TIME_MODE", "FC_DUMP_NAME", "FC_DUMP_PATH", "FC_NO_FORK",
   "FC_ALLOW_THREAD", "FC_USE_PID", "FC_DEBUG", "FC_NO_VERBOSE"}

------------------------------------------------------------------------------
(* fc_read_ressources *)

setenv(env, var, val) == [v \in DOMAIN env \cup {var} |-> IF v = var THEN val ELSE env[v]]
unsetenv(env, var) == Restrict(env, DOMAIN env \ {var})

(* sscanf leaves keyw and val alone for the words that the line lacks, so  *)
(* they are those of the line before; "!" unsets the variable              *)
ReadLine(read, words) ==
  LET keyw == IF Len(words) >= 1 THEN words[1] ELSE read.keyw
      val == IF Len(words) >= 2 THEN words[2] ELSE read.val
      env == CASE keyw \notin Variables -> read.env
               [] keyw \in Variables /\ val = "!" -> unsetenv(read.env, keyw)
               [] OTHER -> setenv(read.env, keyw, val)
  IN  [keyw |-> keyw, val |-> val, env |-> env]

(* a bug: what the user has in the environment is kept (setenv without     *)
(* overwrite)                                                              *)
ReadRessources_NoOverwrite(env, rc) ==
  env @@ FoldLeft(ReadLine, [keyw |-> rc.junk, val |-> rc.junk, env |-> env], rc.lines).env

(* The end of the file is looked for before the line is used: a last line  *)
(* without newline is read and forgotten.  rc.junk is what lies in the two *)
(* buffers at first.                                                       *)
ReadRessources(env, rc) ==
  FoldLeft(ReadLine, [keyw |-> rc.junk, val |-> rc.junk, env |-> env],
           IF rc.newline THEN rc.lines ELSE Front(rc.lines)).env

------------------------------------------------------------------------------
(* fc_read_env, with the default values of _init *)

(* sscanf "%d": a value that is no number changes nothing *)
EnvInteger(env, var, default) ==
  IF var \in DOMAIN env /\ env[var] \in DOMAIN Numerals THEN Numerals[env[var]] ELSE default

EnvBool(env, var) == var \in DOMAIN env

EnvChar(env, var, default) == IF var \in DOMAIN env THEN env[var] ELSE default

ReadEnv(env) ==
  [verbose_mode |-> ~EnvBool(env, "FC_QUIET") /\ ~EnvBool(env, "FC_NO_VERBOSE"),
   give_help |-> EnvBool(env, "FC_HELP"),
   use_memory |-> EnvBool(env, "FC_MEMORY"),
   memory_stack |-> EnvInteger(env, "FC_MEMORY_STACK", 4),
   buffer_size |-> EnvInteger(env, "FC_BUFFER_SIZE", 128 * 1024),
   stack_size |-> EnvInteger(env, "FC_STACK_SIZE", 1024),
   function_size |-> EnvInteger(env, "FC_FUNCTION_SIZE", 64 * 1024),
   graph_size |-> EnvInteger(env, "FC_GRAPH_SIZE", 512),
   memory_size |-> EnvInteger(env, "FC_MEMORY_SIZE", 512),
   time_mode |-> EnvChar(env, "FC_TIME_MODE", "tsc"),
   dump_name |-> EnvChar(env, "FC_DUMP_NAME", "functioncheck"),
   dump_path |-> EnvChar(env, "FC_DUMP_PATH", "./"),
   no_fork |-> TRUE,              \* it is 1 at first, FC_NO_FORK sets it to 1
   no_thread |-> ~EnvBool(env, "FC_ALLOW_THREAD"),
   use_pid |-> EnvBool(env, "FC_USE_PID"),
   debug |-> EnvBool(env, "FC_DEBUG")]

(* _init: build.thread is fc_allow_thread_hard *)
Mode(conf, build) ==
  CASE conf.no_fork /\ conf.no_thread -> "SINGLE"
    [] ~conf.no_thread /\ build.thread -> "THREAD"
    [] OTHER -> "FORK"

------------------------------------------------------------------------------
(* fc_check_power *)

(* n before the i-th turn of the loop: n *= 2 on an int makes -2^31 of 2^30 *)
Doubled(i) == IF i <= 30 THEN 2 ^ i ELSE -(2 ^ 30) - 2 ^ 30

(* bug: "no match, set nb to n" is forgotten *)
CheckPower_NotSet(nb) == nb

(* the loop ends at the first n that is not less, or after 30 turns *)
CheckPower(nb) == Doubled(Min({i \in 1 .. 31 : i = 31 \/ Doubled(i) >= nb}))

------------------------------------------------------------------------------
(* fc_time.c *)

(* fc_set_time_type: sys is cpu, and what is not known is tsc.  strcasecmp *)
(* takes capitals too.                                                     *)
TimeType(name) ==
  CASE name \in {"ext", "EXT"} -> "EXT"
    [] name \in {"cpu", "CPU", "sys", "SYS"} -> "CPU"
    [] OTHER -> "TSC"

(* gettimeofday *)
Tv(now) == [sec |-> now \div Micro, usec |-> now % Micro]

(* bug: nothing is borrowed from the seconds *)
TimerExt_NoBorrow(first, now) ==
  (Tv(now).sec - Tv(first).sec) * Micro + ((Tv(now).usec - Tv(first).usec) % Micro)

TimerExt(first, now) ==
  LET tv == Tv(now) IN
  IF tv.sec = Tv(first).sec THEN tv.usec - Tv(first).usec
  ELSE (tv.sec - Tv(first).sec - 1) * Micro + tv.usec + Micro - Tv(first).usec

(* The clock is cut to an unsigned int, the first one is not.  max_clock   *)
(* is ~(1 << 31) where clock_t has 32 bits; where it has 64 the shift is   *)
(* undefined, and a compiler that makes it 0 gives -1.                     *)
MaxClocks == {U32 \div 2 - 1, -1}

TimerCpu(first, now, max_clock) ==
  LET result == now % U32 IN
  IF first < result THEN result - first ELSE (result + (max_clock - first)) % U32

TimerTsc(first, now) == now - first

(* fc_gettimeofday *)
Stamp(timer, now) ==
  CASE timer.tmode = "EXT" -> TimerExt(timer.first, now)
    [] timer.tmode = "CPU" -> TimerCpu(timer.first, now, timer.max_clock)
    [] OTHER -> TimerTsc(timer.first, now)
=============================================================================
