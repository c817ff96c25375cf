---- MODULE MCSupervisor ----
EXTENDS Supervisor
CONSTANTS w1, w2
====
