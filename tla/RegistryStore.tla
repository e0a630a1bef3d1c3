---------------------------- MODULE RegistryStore ----------------------------
(***************************************************************************)
(* RegistryStore of slhwid/_store.py: the device helper and the stored     *)
(* secret as values below SOFTWARE\SystemLocker, in the machine's hive or, *)
(* where that is denied, in the user's.  "A pair is one generation": a     *)
(* store object pins one hive and reads both values from it.               *)
(*                                                                         *)
(* A registry is a function from the hives to [helper, secret], either of  *)
(* which may be None; a pin is a hive or None.                             *)
(***************************************************************************)
EXTENDS Naturals, FiniteSets

CONSTANT None  \* Python's None

Hives == {"HKLM", "HKCU"}

\* The machine's hive comes before the user's, everywhere.
Preferred(hives) ==
  IF "HKLM" \in hives THEN "HKLM" ELSE IF "HKCU" \in hives THEN "HKCU" ELSE None

Complete(reg, h) == reg[h].helper # None /\ reg[h].secret # None
Partial(reg, h)  == reg[h].helper # None \/ reg[h].secret # None

\* Mutant of HelperRoot: the user's hive comes first.
UserRootFirst(pin, reg) ==
  IF pin # None THEN pin
  ELSE IF Partial(reg, "HKCU") THEN "HKCU"
  ELSE Preferred({h \in Hives : Partial(reg, h)})

\* _select_root(name), for the helper: a complete pair comes before a half one.
HelperRoot(pin, reg) ==
  IF pin # None THEN pin
  ELSE IF \E h \in Hives : Complete(reg, h) THEN Preferred({h \in Hives : Complete(reg, h)})
  ELSE Preferred({h \in Hives : Partial(reg, h)})

\* _select_root(): without a helper's name only the secrets count.
SecretRoot(pin, reg) ==
  IF pin # None THEN pin ELSE Preferred({h \in Hives : reg[h].secret # None})

\* _write_selected: where a value goes, and with it the pin, if writing works
\* in the given hives; None if it raises.
WriteRoot(pin, reg, writable) ==
  IF SecretRoot(pin, reg) \in writable THEN SecretRoot(pin, reg) ELSE Preferred(writable)

\* read_helper and read_slstore, of a pinned store.
HelperIn(root, reg) == IF root = None THEN None ELSE reg[root].helper
SecretIn(root, reg) == IF root = None THEN None ELSE reg[root].secret
=============================================================================
