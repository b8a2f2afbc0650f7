---------------------------- MODULE MCInjector ----------------------------
(* Instances of Injector.                                                  *)
EXTENDS Injector

CONSTANTS t1, t2

(* Behaviours are followed up to the first disturbance: past it the        *)
(* properties of the run say nothing.                                      *)
Undisturbed == ~Disturbed
=============================================================================
