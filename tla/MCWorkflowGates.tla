---- MODULE MCWorkflowGates ----
EXTENDS WorkflowGates
====
