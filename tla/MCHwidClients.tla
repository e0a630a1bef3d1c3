---------------------------- MODULE MCHwidClients ----------------------------
(* A small instance of HwidClients for TLC: an application with two threads *)
(* on one Client, and a program that drives slhwid itself.                  *)
EXTENDS HwidClients, TLC

CONSTANTS t1, t2, driver, app, tool

MCAppOf == [t \in Threads |-> IF t = driver THEN tool ELSE app]
\* With and without elevation.
MCWritable == {Hives, {"HKCU"}}
MCSymmetry == Permutations({t1, t2})
=============================================================================
