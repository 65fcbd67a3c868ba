SPECIFICATION Spec
CONSTANTS
  Versions = {TRUE, FALSE}
  Ops = {"firmwareVersion", "sysPersistent", "reset", "resetByPin", "setHostname", "hostnameQuery", "mDNS", "resolve", "sntpCfg", "sntpTime", "ping", "sleepMode", "deepSleep", "wifiOff", "staStatus", "listAP", "staStaticIp", "staEnableDHCP", "setDNS", "staMacQuery", "staIpQuery", "dnsQuery", "dhcpStateQuery", "joinAP", "joinEAP", "quitAP", "staAutoConnect", "apQuery", "softApIp", "softApMacQuery", "softApIpQuery", "beginSoftAP", "endSoftAP", "softApQuery", "ethSetMac", "ethStaticIp", "ethEnableDHCP", "ethMacQuery", "ethIpQuery", "setEthHostname", "ethHostnameQuery", "serverBegin", "serverEnd", "sendData", "sendStream", "sendCallback", "checkLinks", "close"}
  TimeoutCount = 3
  MaxIgnored = 8
  MaxLeft = 0
  MaxBusy = 1
  MaxFaults = 1
PROPERTIES PayloadOnly
  OwnAnswer FieldsExact CleanEnd ErrorMeans CallEnds
