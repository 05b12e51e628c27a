------------------------------- MODULE MCIrq -------------------------------
(* The lines that irq_init unmasks: timer, keyboard and mouse.             *)
EXTENDS Irq

const_BootLines == {0, 1, 12}
=============================================================================
