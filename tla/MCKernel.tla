------------------------------ MODULE MCKernel ------------------------------
(* Model-checking instance of Kernel: two user threads, four levels with   *)
(* the code's ordering of quanta scaled down (see README), one mutex.      *)
EXTENDS Kernel

MCLevelMaxQuanta    == <<3, 2, 2, 2>>
MCLevelQuantumValue == <<1, 2, 2, 2>>
MCLevelMaxQuanta2    == <<2, 2>>
MCLevelQuantumValue2 == <<1, 2>>
=============================================================================
