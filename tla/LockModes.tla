----------------------------- MODULE LockModes ------------------------------
(* The six lock modes of oz_knl_lock.h with its tables, written as sets:   *)
(* who can be held beside whom, which conversions may let others in, which *)
(* may have to wait, and what each mode lets its holder and others do.     *)
EXTENDS FiniteSets

Modes == {"NL", "CR", "CW", "PR", "PW", "EX"}

(* oz_lock_compat: the modes others can hold beside mode m *)
Compat(m) ==
  CASE m = "NL" -> Modes
    [] m = "CR" -> {"NL", "CR", "CW", "PR", "PW"}
    [] m = "CW" -> {"NL", "CR", "CW"}
    [] m = "PR" -> {"NL", "CR", "PR"}
    [] m = "PW" -> {"NL", "CR"}
    [] m = "EX" -> {"NL"}

(* oz_lock_dncnvt: the conversions from m that may let others be granted *)
DownConvert(m) ==
  CASE m = "NL" -> {}
    [] m = "CR" -> {"NL"}
    [] m = "CW" -> {"NL", "CR", "PR"}
    [] m = "PR" -> {"NL", "CR", "CW"}
    [] m = "PW" -> {"NL", "CR", "CW", "PR"}
    [] m = "EX" -> {"NL", "CR", "CW", "PR", "PW"}

(* oz_lock_upcnvt: the conversions from m that may cause a wait *)
UpConvert(m) ==
  CASE m = "NL" -> {"CR", "CW", "PR", "PW", "EX"}
    [] m = "CR" -> {"CW", "PR", "PW", "EX"}
    [] m = "CW" -> {"PR", "PW", "EX"}
    [] m = "PR" -> {"CW", "PW", "EX"}
    [] m = "PW" -> {"EX"}
    [] m = "EX" -> {}

(* OZ_LOCK_ALLOWS_...: the modes that let one read or write oneself, and   *)
(* those that let the others.                                              *)
SelfRead    == {"CR", "CW", "PR", "PW", "EX"}
SelfWrite   == {"CW", "PW", "EX"}
OthersRead  == {"NL", "CR", "CW", "PR", "PW"}
OthersWrite == {"NL", "CR", "CW"}
=============================================================================
