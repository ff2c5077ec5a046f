---------------------------- MODULE MCTestRunner ----------------------------
(* A small instance of TestRunner: a suite, an example and a skipped suite   *)
(* on three processors.                                                     *)
EXTENDS TestRunner

CONSTANTS w1, w2, w3
=============================================================================
