---- MODULE MCGroupNotifier ----
EXTENDS GroupNotifier
====
