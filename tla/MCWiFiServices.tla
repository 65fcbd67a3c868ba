---------------------------- MODULE MCWiFiServices ----------------------------
EXTENDS WiFiServices
=============================================================================
