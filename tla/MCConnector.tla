---- MODULE MCConnector ----
EXTENDS Connector
====
