---------------------------- MODULE MCResidentJobs ----------------------------
EXTENDS ResidentJobs, TLC
===============================================================================
