---- MODULE MCStartedService ----
EXTENDS Daemon
====
